---- MODULE Spec2Model ----
(***************************************************************************)
(* Model of zzstat-json: the template compiler (src/src/template.rs), the  *)
(* direct stat loader (src/src/loader.rs), the value resolver              *)
(* (src/src/config.rs) and the compiled transform units.                   *)
(*                                                                         *)
(* Strings are sequences of one-character strings, so that slicing,        *)
(* trimming, prefix tests and formatting are computed as the code computes *)
(* them.  f64 values are integers (all arithmetic of the model is exact on *)
(* the small integers used).  Option<T> is <<>> (None) or <<x>> (Some(x)). *)
(***************************************************************************)
EXTENDS Integers, Sequences, FiniteSets, TLC

VARIABLES templates, entity_configs, resolver, last, calls, arg, out

vars == <<templates, entity_configs, resolver, last, calls, arg, out>>

(***************************************************************************)
(* Bounds.                                                                 *)
(***************************************************************************)
MaxCalls == 2
MaxBatch == 2
MaxStrLen == 6

(***************************************************************************)
(* Strings.                                                                *)
(***************************************************************************)
None == <<>>
Some(x) == <<x>>

StartsWith(s, p) == Len(s) >= Len(p) /\ SubSeq(s, 1, Len(p)) = p

EndsWith(s, p) == Len(s) >= Len(p) /\ SubSeq(s, Len(s) - Len(p) + 1, Len(s)) = p

IsWhitespace(c) == c = " "

RECURSIVE TrimStart(_)
TrimStart(s) ==
    IF s # <<>> /\ IsWhitespace(Head(s)) THEN TrimStart(Tail(s)) ELSE s

RECURSIVE TrimEnd(_)
TrimEnd(s) ==
    IF s # <<>> /\ IsWhitespace(s[Len(s)])
    THEN TrimEnd(SubSeq(s, 1, Len(s) - 1))
    ELSE s

TrimNothing(s) == s

Trim(s) == TrimEnd(TrimStart(s))

\* str::find(':'): the 1-based position of the first ':' or 0 when absent.
RECURSIVE FindFrom(_, _, _)
FindFrom(s, c, i) ==
    IF i > Len(s) THEN 0
    ELSE IF s[i] = c THEN i
    ELSE FindFrom(s, c, i + 1)

Find(s, c) == FindFrom(s, c, 1)

\* format!("{}:{}", a, b)
FormatColon(a, b) == a \o <<":">> \o b

IsDigit(c) == c \in {"0", "1", "2", "3", "4", "5", "6", "7", "8", "9"}

DigitVal(c) ==
    CASE c = "0" -> 0 [] c = "1" -> 1 [] c = "2" -> 2 [] c = "3" -> 3
      [] c = "4" -> 4 [] c = "5" -> 5 [] c = "6" -> 6 [] c = "7" -> 7
      [] c = "8" -> 8 [] c = "9" -> 9

RECURSIVE DecimalVal(_, _)
DecimalVal(s, acc) ==
    IF s = <<>> THEN acc ELSE DecimalVal(Tail(s), 10 * acc + DigitVal(Head(s)))

AllDigits(s) == s # <<>> /\ \A i \in 1..Len(s) : IsDigit(s[i])

\* str::parse::<f64>() on the strings of the model: an optional sign followed
\* by one or more decimal digits; no whitespace is accepted.  (Fractions,
\* exponents, "inf" and "nan" need characters the model's strings never hold.)
ParseF64(s) ==
    IF AllDigits(s) THEN Some(DecimalVal(s, 0))
    ELSE IF s # <<>> /\ Head(s) = "-" /\ AllDigits(Tail(s))
         THEN Some(0 - DecimalVal(Tail(s), 0))
    ELSE IF s # <<>> /\ Head(s) = "+" /\ AllDigits(Tail(s))
         THEN Some(DecimalVal(Tail(s), 0))
    ELSE None

(***************************************************************************)
(* Results.                                                                *)
(***************************************************************************)
Ok(v) == [tag |-> "Ok", val |-> v]
Err(e) == [tag |-> "Err", err |-> e]

IsOk(r) == r.tag = "Ok"
IsErr(r) == r.tag = "Err"

\* Result::map_err(|e| YamlStatError::InvalidConfig(format!("<ctx>: {}", e)))
InvalidConfig(ctx, e) == [variant |-> "InvalidConfig", ctx |-> ctx, cause |-> e]

MapErr(r, ctx) == IF IsErr(r) THEN Err(InvalidConfig(ctx, r.err)) ELSE r

(***************************************************************************)
(* SourceValue (config.rs).                                                *)
(***************************************************************************)
Number(n) == [t |-> "Number", n |-> n]
String(s) == [t |-> "String", s |-> s]

HasKey(params, k) == k \in DOMAIN params

\* A resolve that also looks a bare (brace-less) string up in the table.
resolve_BareNames(sv, params) ==
    IF sv.t = "Number" THEN Ok(sv.n)
    ELSE LET s == sv.s IN
         IF StartsWith(s, <<"{", "{">>) /\ EndsWith(s, <<"}", "}">>)
         THEN LET param_name == Trim(SubSeq(s, 3, Len(s) - 2)) IN
              IF HasKey(params, param_name)
              THEN Ok(params[param_name])
              ELSE Err([variant |-> "ParameterNotFound", name |-> param_name])
         ELSE IF HasKey(params, s) THEN Ok(params[s])
         ELSE LET p == ParseF64(s) IN
              IF p # None THEN Ok(p[1])
              ELSE Err([variant |-> "InvalidNumber", name |-> s])

\* SourceValue::resolve.  A string that starts with "{{" and ends with "}}"
\* has at least four characters, so the slice s[2..s.len() - 2] is in range.
resolve(sv, params) ==
    IF sv.t = "Number" THEN Ok(sv.n)
    ELSE LET s == sv.s IN
         IF StartsWith(s, <<"{", "{">>) /\ EndsWith(s, <<"}", "}">>)
         THEN LET param_name == Trim(SubSeq(s, 3, Len(s) - 2)) IN
              IF HasKey(params, param_name)
              THEN Ok(params[param_name])
              ELSE Err([variant |-> "ParameterNotFound", name |-> param_name])
         ELSE LET p == ParseF64(s) IN
              IF p # None THEN Ok(p[1])
              ELSE Err([variant |-> "InvalidNumber", name |-> s])

\* Option<SourceValue>.map(resolve).transpose().map_err(ctx)?.unwrap_or(d)
resolveOr(opt, params, ctx, d) ==
    IF opt = None THEN Ok(d) ELSE MapErr(resolve(opt[1], params), ctx)

(***************************************************************************)
(* Configuration descriptions (config.rs).  The optional descriptive       *)
(* `name` field is ignored by every compiler (`name: _`) and is left out.  *)
(***************************************************************************)
Constant(value) == [type |-> "constant", value |-> value]

Scaling(base, scale, level) ==
    [type |-> "scaling", base |-> base, scale |-> scale, level |-> level]

Multiplicative(value) == [type |-> "multiplicative", value |-> value]

Additive(value) == [type |-> "additive", value |-> value]

Clamp(min, max) == [type |-> "clamp", min |-> min, max |-> max]

Conditional(condition_stat, condition_value, operator, then, else_then) ==
    [type |-> "conditional", condition_stat |-> condition_stat,
     condition_value |-> condition_value, operator |-> operator,
     then |-> then, else_then |-> else_then]

Map(dependencies, multiplier) ==
    [type |-> "map", dependencies |-> dependencies, multiplier |-> multiplier]

StatTemplate(sources, transforms) == [sources |-> sources, transforms |-> transforms]

EntityStatConfig(entity_id, stat_type, template_name, params) ==
    [entity_id |-> entity_id, stat_type |-> stat_type,
     template_name |-> template_name, params |-> params]

(***************************************************************************)
(* Compiled units handed to the resolver.                                  *)
(***************************************************************************)
ConstantSource(v) == [unit |-> "ConstantSource", value |-> v]

MultiplicativeTransform(v) == [unit |-> "MultiplicativeTransform", value |-> v]

AdditiveTransform(v) == [unit |-> "AdditiveTransform", value |-> v]

\* Clamp bounds are f64 values that may be infinite.
Fin(n) == [inf |-> 0, v |-> n]
NEG_INFINITY == [inf |-> 0 - 1, v |-> 0]
INFINITY == [inf |-> 1, v |-> 0]

ClampTransform(min, max) == [unit |-> "ClampTransform", min |-> min, max |-> max]

MapTransform(dependencies, multiplier) ==
    [unit |-> "MapTransform", dependencies |-> dependencies, multiplier |-> multiplier]

ConditionalTransform(condition_stat_id, condition_value, operator, then_transform, else_transform) ==
    [unit |-> "ConditionalTransform", condition_stat_id |-> condition_stat_id,
     condition_value |-> condition_value, operator |-> operator,
     then_transform |-> then_transform, else_transform |-> else_transform]

\* A from_str that reads every unknown operator string as "==".
OperatorFromStr_Lenient(op) ==
    CASE op = <<">">> -> Ok("GreaterThan")
      [] op = <<"<">> -> Ok("LessThan")
      [] op = <<">", "=">> -> Ok("GreaterThanOrEqual")
      [] op = <<"<", "=">> -> Ok("LessThanOrEqual")
      [] OTHER -> Ok("Equal")

\* ConditionalOperator::from_str on the operator strings of the model.
OperatorFromStr(op) ==
    CASE op = <<">">> -> Ok("GreaterThan")
      [] op = <<"<">> -> Ok("LessThan")
      [] op = <<">", "=">> -> Ok("GreaterThanOrEqual")
      [] op = <<"<", "=">> -> Ok("LessThanOrEqual")
      [] op = <<"=", "=">> -> Ok("Equal")
      [] OTHER -> Err([variant |-> "InvalidOperator", name |-> op])

\* A depends_on that leaves the else branch's dependencies out.
RECURSIVE depends_on_NoElse(_)
depends_on_NoElse(u) ==
    CASE u.unit = "MapTransform" -> u.dependencies
      [] u.unit = "ConditionalTransform" ->
            <<u.condition_stat_id>> \o depends_on_NoElse(u.then_transform)
      [] OTHER -> <<>>

\* StatTransform::depends_on of each unit.
RECURSIVE depends_on(_)
depends_on(u) ==
    CASE u.unit = "MapTransform" -> u.dependencies
      [] u.unit = "ConditionalTransform" ->
            <<u.condition_stat_id>> \o depends_on(u.then_transform)
            \o (IF u.else_transform = None THEN <<>>
                ELSE depends_on(u.else_transform[1]))
      [] OTHER -> <<>>

(***************************************************************************)
(* Source compilation: StatTemplateManager::resolve_source and             *)
(* StatLoader::build_source.  A `?` on a failed step returns that step's   *)
(* error; the later steps are not reached.                                 *)
(***************************************************************************)
ScalingValueNoLevel(base_val, scale_val, level_val) == base_val + scale_val

ScalingValue(base_val, scale_val, level_val) == base_val + (scale_val * level_val)

\* Ok(Box::new(ConstantSource(resolved_value))) after `?`
ConstantFrom(r) == IF IsOk(r) THEN Ok(ConstantSource(r.val)) ELSE r

\* base?, scale?, level? in this order, then ConstantSource(base + scale * level)
ScalingFrom(b, sc, lv) ==
    IF ~IsOk(b) THEN b
    ELSE IF ~IsOk(sc) THEN sc
    ELSE IF ~IsOk(lv) THEN lv
    ELSE Ok(ConstantSource(ScalingValue(b.val, sc.val, lv.val)))

resolve_source(config, params) ==
    IF config.type = "constant"
    THEN ConstantFrom(MapErr(resolve(config.value, params), "Source resolution error"))
    ELSE ScalingFrom(MapErr(resolve(config.base, params), "Base resolution error"),
                     MapErr(resolve(config.scale, params), "Scale resolution error"),
                     resolveOr(config.level, params, "Level resolution error", 1))

EmptyParams == <<>>

\* A direct-definition Scaling that leaves the level out of the product.
BuildScalingFromNoLevel(b, sc, lv) ==
    IF ~IsOk(b) THEN b
    ELSE IF ~IsOk(sc) THEN sc
    ELSE IF ~IsOk(lv) THEN lv
    ELSE Ok(ConstantSource(b.val + sc.val))

\* base?, scale?, level? in this order, then ConstantSource(base + scale * level)
BuildScalingFrom(b, sc, lv) ==
    IF ~IsOk(b) THEN b
    ELSE IF ~IsOk(sc) THEN sc
    ELSE IF ~IsOk(lv) THEN lv
    ELSE Ok(ConstantSource(b.val + (sc.val * lv.val)))

build_source(config) ==
    IF config.type = "constant"
    THEN ConstantFrom(MapErr(resolve(config.value, EmptyParams), "Source resolution error"))
    ELSE BuildScalingFrom(
             MapErr(resolve(config.base, EmptyParams), "Base resolution error"),
             MapErr(resolve(config.scale, EmptyParams), "Scale resolution error"),
             resolveOr(config.level, EmptyParams, "Level resolution error", 1))

(***************************************************************************)
(* Transform compilation: resolve_transform_with_entity (template.rs) and  *)
(* ConditionalTransform::from_config (transform_conditional.rs).           *)
(***************************************************************************)
\* The identifier a dependency name gets under an entity id.
ScopedNever(entity_id, name) == name

Scoped(entity_id, name) ==
    IF entity_id # <<>> THEN FormatColon(entity_id, name) ELSE name

MultiplicativeFrom(r) == IF IsOk(r) THEN Ok(MultiplicativeTransform(r.val)) ELSE r

AdditiveFrom(r) == IF IsOk(r) THEN Ok(AdditiveTransform(r.val)) ELSE r

FinFrom(r) == IF IsOk(r) THEN Ok(Fin(r.val)) ELSE r

\* Option<SourceValue>.map(resolve).transpose().map_err(ctx)?.unwrap_or(d)
ClampBound(opt, params, ctx, d) ==
    IF opt = None THEN Ok(d) ELSE FinFrom(MapErr(resolve(opt[1], params), ctx))

\* min?, max? in this order, then ClampTransform::new(min, max)
ClampFrom(mn, mx) ==
    IF ~IsOk(mn) THEN mn
    ELSE IF ~IsOk(mx) THEN mx
    ELSE Ok(ClampTransform(mn.val, mx.val))

\* multiplier?, then MapTransform::new(dependency_ids, multiplier)
MapFrom(dependency_ids, m) ==
    IF IsOk(m) THEN Ok(MapTransform(dependency_ids, m.val)) ELSE m

\* A variant that leaves out an else-branch that failed to compile.
ConditionalFrom_DropsElse(condition_stat_id, condition_value, op, th, el) ==
    IF ~IsOk(op) THEN op
    ELSE IF ~IsOk(th) THEN th
    ELSE Ok(ConditionalTransform(condition_stat_id, condition_value, op.val,
                                 th.val, IF IsOk(el) THEN el.val ELSE None))

\* ConditionalTransform::from_config after the condition stat id: operator?,
\* then-branch?, else-branch? in this order, then ConditionalTransform::new.
\* el is Ok(None) when there is no else branch.
ConditionalFrom(condition_stat_id, condition_value, op, th, el) ==
    IF ~IsOk(op) THEN op
    ELSE IF ~IsOk(th) THEN th
    ELSE IF ~IsOk(el) THEN el
    ELSE Ok(ConditionalTransform(condition_stat_id, condition_value, op.val,
                                 th.val, el.val))

SomeFrom(r) == IF IsOk(r) THEN Ok(Some(r.val)) ELSE r

RECURSIVE resolve_transform_with_entity(_, _, _)
resolve_transform_with_entity(config, params, entity_id) ==
    CASE config.type = "multiplicative" ->
            MultiplicativeFrom(
                MapErr(resolve(config.value, params), "Transform resolution error"))
      [] config.type = "additive" ->
            AdditiveFrom(
                MapErr(resolve(config.value, params), "Transform resolution error"))
      [] config.type = "clamp" ->
            ClampFrom(
                ClampBound(config.min, params, "Clamp min resolution error", NEG_INFINITY),
                ClampBound(config.max, params, "Clamp max resolution error", INFINITY))
      [] config.type = "conditional" ->
            \* ConditionalTransform::from_config: the branches are compiled by
            \* resolve_transform, i.e. with the empty entity id.
            ConditionalFrom(
                Scoped(entity_id, config.condition_stat),
                config.condition_value,
                MapErr(OperatorFromStr(config.operator), "Operator error"),
                resolve_transform_with_entity(config.then, params, <<>>),
                IF config.else_then = None THEN Ok(None)
                ELSE SomeFrom(resolve_transform_with_entity(
                                  config.else_then[1], params, <<>>)))
      [] config.type = "map" ->
            MapFrom(
                [i \in 1..Len(config.dependencies) |->
                    Scoped(entity_id, config.dependencies[i])],
                resolveOr(config.multiplier, params, "Multiplier resolution error", 1))

resolve_transform(config, params) == resolve_transform_with_entity(config, params, <<>>)

\* StatLoader::build_transform: every value is resolved against an empty
\* parameter table and dependency names are used as they are.
build_transform(config) ==
    CASE config.type = "multiplicative" ->
            MultiplicativeFrom(
                MapErr(resolve(config.value, EmptyParams), "Transform resolution error"))
      [] config.type = "additive" ->
            AdditiveFrom(
                MapErr(resolve(config.value, EmptyParams), "Transform resolution error"))
      [] config.type = "clamp" ->
            ClampFrom(
                ClampBound(config.min, EmptyParams, "Clamp min resolution error",
                           NEG_INFINITY),
                ClampBound(config.max, EmptyParams, "Clamp max resolution error", INFINITY))
      [] config.type = "conditional" ->
            \* ConditionalTransform::from_config(.., &empty_params, "")
            ConditionalFrom(
                Scoped(<<>>, config.condition_stat),
                config.condition_value,
                MapErr(OperatorFromStr(config.operator), "Operator error"),
                resolve_transform(config.then, EmptyParams),
                IF config.else_then = None THEN Ok(None)
                ELSE SomeFrom(resolve_transform(config.else_then[1], EmptyParams)))
      [] config.type = "map" ->
            MapFrom(config.dependencies,
                    resolveOr(config.multiplier, EmptyParams,
                              "Multiplier resolution error", 1))

(***************************************************************************)
(* The resolver boundary.  The resolver is the sequence of registrations   *)
(* made on it, in call order; a stat's sources and transforms are the      *)
(* subsequences registered under its identifier.                           *)
(***************************************************************************)
Registration(kind, stat_id, unit) == [kind |-> kind, stat_id |-> stat_id, unit |-> unit]

register_source(stat_id, source) == Registration("source", stat_id, source)

register_transform(stat_id, transform) == Registration("transform", stat_id, transform)

\* The progress of a call: its result so far and the registrations it made.
Progress(res, regs) == [res |-> res, regs |-> regs]

\* `let unit = compile(..)?; resolver.register_..(stat_id, unit);`
Registered(st, r, reg) ==
    IF IsOk(r) THEN Progress(Ok(None), Append(st.regs, reg)) ELSE Progress(r, st.regs)

\* for source_config in &template.sources { resolve_source(..)?; register_source(..) }
RECURSIVE AddSources(_, _, _, _, _)
AddSources(sources, i, params, stat_id, st) ==
    IF i > Len(sources) \/ ~IsOk(st.res) THEN st
    ELSE AddSources(sources, i + 1, params, stat_id,
                    Registered(st, resolve_source(sources[i], params),
                               register_source(stat_id,
                                               resolve_source(sources[i], params).val)))

\* A transform loop that undoes the call's registrations when a unit fails.
RECURSIVE AddTransformsRollback(_, _, _, _, _, _)
AddTransformsRollback(transforms, i, params, entity_id, stat_id, st) ==
    IF ~IsOk(st.res) THEN Progress(st.res, <<>>)
    ELSE IF i > Len(transforms) THEN st
    ELSE AddTransformsRollback(transforms, i + 1, params, entity_id, stat_id,
             Registered(st, resolve_transform_with_entity(transforms[i], params, entity_id),
                        register_transform(stat_id,
                            resolve_transform_with_entity(transforms[i], params,
                                                          entity_id).val)))

\* for transform_config in &template.transforms { resolve_transform_with_entity(..)?; .. }
\* (not entered when a source has failed)
RECURSIVE AddTransforms(_, _, _, _, _, _)
AddTransforms(transforms, i, params, entity_id, stat_id, st) ==
    IF i > Len(transforms) \/ ~IsOk(st.res) THEN st
    ELSE AddTransforms(transforms, i + 1, params, entity_id, stat_id,
             Registered(st, resolve_transform_with_entity(transforms[i], params, entity_id),
                        register_transform(stat_id,
                            resolve_transform_with_entity(transforms[i], params,
                                                          entity_id).val)))

\* The entity id apply_template derives from the stat name: the text before
\* the first ':' or the empty string.
ExtractEntityId(stat_name) ==
    IF Find(stat_name, ":") > 0
    THEN SubSeq(stat_name, 1, Find(stat_name, ":") - 1)
    ELSE <<>>

TemplateNotFound(template_name) ==
    Err([variant |-> "InvalidConfig", ctx |-> "Template not found",
         cause |-> template_name])

\* An apply_template that registers the transforms before the sources.
apply_template_TransformsFirst(tmpls, template_name, stat_name, params) ==
    IF template_name \notin DOMAIN tmpls
    THEN Progress(TemplateNotFound(template_name), <<>>)
    ELSE AddSources(tmpls[template_name].sources, 1, params, stat_name,
             AddTransforms(tmpls[template_name].transforms, 1, params,
                           ExtractEntityId(stat_name), stat_name,
                           Progress(Ok(None), <<>>)))

\* An apply_template that treats an unknown template as an empty one.
apply_template_MissingIsEmpty(tmpls, template_name, stat_name, params) ==
    IF template_name \notin DOMAIN tmpls
    THEN Progress(Ok(None), <<>>)
    ELSE AddTransforms(tmpls[template_name].transforms, 1, params,
                       ExtractEntityId(stat_name), stat_name,
             AddSources(tmpls[template_name].sources, 1, params, stat_name,
                        Progress(Ok(None), <<>>)))

\* StatTemplateManager::apply_template: the result of the call and the
\* registrations it made on the resolver, in order.  The stat id is the stat
\* name itself (StatId::from_str).
apply_template(tmpls, template_name, stat_name, params) ==
    IF template_name \notin DOMAIN tmpls
    THEN Progress(TemplateNotFound(template_name), <<>>)
    ELSE AddTransforms(tmpls[template_name].transforms, 1, params,
                       ExtractEntityId(stat_name), stat_name,
             AddSources(tmpls[template_name].sources, 1, params, stat_name,
                        Progress(Ok(None), <<>>)))

\* An identifier made of the stat type alone.
entity_stat_id_Bare(entity_id, stat_type) == stat_type

\* StatTemplateManager::entity_stat_id
entity_stat_id(entity_id, stat_type) == FormatColon(entity_id, stat_type)

\* The progress of a batch: result, registrations and the index of the
\* failing application (0 when none).
BatchProgress(res, regs, failed) == [res |-> res, regs |-> regs, failed |-> failed]

\* `self.apply_template(..)?;` as the i-th step of a batch
Applied(st, a, i) ==
    BatchProgress(a.res, st.regs \o a.regs, IF IsOk(a.res) THEN 0 ELSE i)

\* A variant of the loop that goes on after a failing application and returns
\* the first error at the end.
RECURSIVE ApplyAll_KeepsGoing(_, _, _, _)
ApplyAll_KeepsGoing(tmpls, apps, i, st) ==
    IF i > Len(apps) THEN st
    ELSE ApplyAll_KeepsGoing(tmpls, apps, i + 1,
            IF IsOk(st.res)
            THEN Applied(st, apply_template(tmpls, apps[i].template_name,
                                            apps[i].stat_name, apps[i].params), i)
            ELSE BatchProgress(st.res,
                               st.regs \o apply_template(tmpls, apps[i].template_name,
                                                         apps[i].stat_name,
                                                         apps[i].params).regs,
                               st.failed))

\* A loop `for a in list { apply_template(a)?; }` over (template, stat, params)
\* applications: the registrations made and the first failure, if any.
RECURSIVE ApplyAll(_, _, _, _)
ApplyAll(tmpls, apps, i, st) ==
    IF i > Len(apps) \/ ~IsOk(st.res) THEN st
    ELSE ApplyAll(tmpls, apps, i + 1,
                  Applied(st, apply_template(tmpls, apps[i].template_name,
                                             apps[i].stat_name, apps[i].params), i))

Application(template_name, stat_name, params) ==
    [template_name |-> template_name, stat_name |-> stat_name, params |-> params]

\* entry(entity_id).or_default().insert(0, config)
Prepended(cache, c) ==
    [k \in (DOMAIN cache) \cup {c.entity_id} |->
        IF k = c.entity_id
        THEN <<c>> \o (IF k \in DOMAIN cache THEN cache[k] ELSE <<>>)
        ELSE cache[k]]

\* entry(entity_id).or_default().push(config), replaced by an insert.
Replaced(cache, c) ==
    [k \in (DOMAIN cache) \cup {c.entity_id} |->
        IF k = c.entity_id THEN <<c>> ELSE cache[k]]

\* self.entity_configs.entry(config.entity_id).or_default().push(config)
Pushed(cache, c) ==
    [k \in (DOMAIN cache) \cup {c.entity_id} |->
        IF k = c.entity_id
        THEN Append(IF k \in DOMAIN cache THEN cache[k] ELSE <<>>, c)
        ELSE cache[k]]

\* for config in entity_configs { .. push(config) }
RECURSIVE SaveToCache(_, _, _)
SaveToCache(cache, configs, i) ==
    IF i > Len(configs) THEN cache
    ELSE SaveToCache(Pushed(cache, configs[i]), configs, i + 1)

(***************************************************************************)
(* The configuration form of a template table (config.rs, serde derive).   *)
(* A document is a tree of JSON values: null, number, string, array and    *)
(* object (a function from field names to values).  The text of a document *)
(* is not modelled.  Enum variants carry their tag in the field "type"     *)
(* (serde(tag = "type")); an Option without skip_serializing_if is written *)
(* as null; a SourceValue is written bare (serde(untagged)).               *)
(***************************************************************************)
JNull == [j |-> "null"]
JNum(n) == [j |-> "num", n |-> n]
JStr(s) == [j |-> "str", s |-> s]
JArr(items) == [j |-> "arr", items |-> items]
JObj(fields) == [j |-> "obj", fields |-> fields]

\* Serialize for SourceValue: the number or the string itself.
SourceValueToJson(sv) == IF sv.t = "Number" THEN JNum(sv.n) ELSE JStr(sv.s)

\* Serialize for Option<SourceValue>: null for None.
OptionToJson(opt) == IF opt = None THEN JNull ELSE SourceValueToJson(opt[1])

\* Serialize for SourceConfig; `name` is None and skipped.
SourceToJson(config) ==
    IF config.type = "constant"
    THEN JObj([type |-> JStr("constant"), value |-> SourceValueToJson(config.value)])
    ELSE JObj([type |-> JStr("scaling"), base |-> SourceValueToJson(config.base),
               scale |-> SourceValueToJson(config.scale),
               level |-> OptionToJson(config.level)])

\* Serialize for TransformConfig; `name` is None and skipped.
RECURSIVE TransformToJson(_)
TransformToJson(config) ==
    CASE config.type = "multiplicative" ->
            JObj([type |-> JStr("multiplicative"),
                  value |-> SourceValueToJson(config.value)])
      [] config.type = "additive" ->
            JObj([type |-> JStr("additive"), value |-> SourceValueToJson(config.value)])
      [] config.type = "clamp" ->
            JObj([type |-> JStr("clamp"), min |-> OptionToJson(config.min),
                  max |-> OptionToJson(config.max)])
      [] config.type = "conditional" ->
            JObj([type |-> JStr("conditional"),
                  condition_stat |-> JStr(config.condition_stat),
                  condition_value |-> JNum(config.condition_value),
                  operator |-> JStr(config.operator),
                  then |-> TransformToJson(config.then),
                  else_then |-> IF config.else_then = None THEN JNull
                                ELSE TransformToJson(config.else_then[1])])
      [] config.type = "map" ->
            JObj([type |-> JStr("map"),
                  dependencies |-> JArr([i \in 1..Len(config.dependencies) |->
                                            JStr(config.dependencies[i])]),
                  multiplier |-> OptionToJson(config.multiplier)])

\* Serialize for StatTemplate; the description is None.
TemplateToJson(template) ==
    JObj([description |-> JNull,
          sources |-> JArr([i \in 1..Len(template.sources) |->
                               SourceToJson(template.sources[i])]),
          transforms |-> JArr([i \in 1..Len(template.transforms) |->
                                  TransformToJson(template.transforms[i])])])

\* templates_to_json: StatConfig { templates: self.templates.clone(), stats: {} }
templates_to_json(tmpls) ==
    JObj([templates |-> JObj([n \in DOMAIN tmpls |-> TemplateToJson(tmpls[n])]),
          stats |-> JObj(<<>>)])

(***************************************************************************)
(* Inputs of the model.                                                    *)
(***************************************************************************)
x == <<"x">>
l == <<"l">>
H == <<"H">>
M == <<"M">>
S == <<"S">>
L == <<"L">>
A == <<"A">>
B == <<"B">>
AB == <<"A", ":", "B">>

\* "{{name}}"
Placeholder(name) == String(<<"{", "{">> \o name \o <<"}", "}">>)

P0 == EmptyParams
P1 == [k \in {x, l} |-> IF k = x THEN 2 ELSE 3]

ParamTables == {P0, P1}

\* P1 with another level.
P2 == [k \in {x, l} |-> IF k = x THEN 2 ELSE 5]


\* The template table the manager is constructed from.
TemplateTable ==
    [n \in {"Base", "Cond", "BadOp"} |->
        CASE n = "Base" ->
                StatTemplate(
                    <<Constant(Number(1)),
                      Scaling(Placeholder(x), Number(2), Some(Placeholder(l))),
                      Scaling(Number(1), String(<<"2">>), None)>>,
                    <<Multiplicative(Placeholder(x)), Clamp(Some(Number(0)), None),
                      Map(<<S, L>>, None)>>)
          [] n = "Cond" ->
                StatTemplate(
                    <<>>,
                    <<Conditional(L, 1, <<">">>, Map(<<S>>, Some(Placeholder(x))),
                        Some(Conditional(S, 0, <<"<", "=">>, Additive(Number(1)), None)))>>)
          [] n = "BadOp" ->
                StatTemplate(
                    <<Constant(Number(4))>>,
                    <<Additive(Number(2)),
                      Conditional(L, 1, <<"!", "=">>, Additive(Number(1)), None),
                      Additive(Number(3))>>)]

TemplateNames == (DOMAIN TemplateTable) \cup {"Missing"}

StatNames == {H, FormatColon(A, H), FormatColon(B, H), FormatColon(AB, H)}

\* The (template name, stat name, params) triples apply_template is called with.
TemplateCalls ==
    ((DOMAIN TemplateTable) \X StatNames \X ParamTables)
    \cup {<<"Base", FormatColon(A, H), P2>>, <<"Missing", H, P1>>}

EntityConfigs ==
    {EntityStatConfig(AB, H, "Base", P1),
     EntityStatConfig(AB, M, "Cond", P1),
     EntityStatConfig(B, M, "BadOp", P0)}

\* The records handed to load_entity.
BorrowedConfigs ==
    {EntityStatConfig(AB, M, "Cond", P1),
     EntityStatConfig(B, H, "Base", P1)}

Applications ==
    {Application("Base", FormatColon(A, M), P1),
     Application("BadOp", H, P0)}

SeqsUpTo(set, n) == UNION {[1..k -> set] : k \in 0..n}

\* The batches of at most n elements of a set that name no element twice.
BatchesOf(set, n) ==
    {b \in SeqsUpTo(set, n) : \A i, j \in 1..Len(b) : b[i] = b[j] => i = j}

NoCall ==
    [op |-> "none", template_name |-> "", stat_name |-> <<>>, params |-> EmptyParams,
     entity_id |-> <<>>, batch |-> <<>>, res |-> Ok(None), failed |-> 0,
     before |-> <<>>, cache_before |-> <<>>]

(***************************************************************************)
(* The manager's operations.  Each is one synchronous call.                *)
(***************************************************************************)
Running == calls < MaxCalls

Init ==
    /\ templates = TemplateTable
    /\ entity_configs = <<>>
    /\ resolver = <<>>
    /\ last = NoCall
    /\ calls = 0
    /\ arg = <<>>
    /\ out = <<>>

\* A call that takes the template it names out of the table
\* (self.templates.remove(name) in place of get(name)).
Returned_TakesTemplate(rec, r) ==
    /\ resolver' = resolver \o r.regs
    /\ last' = [rec EXCEPT !.res = r.res, !.before = resolver,
                           !.cache_before = entity_configs]
    /\ calls' = calls + 1
    /\ templates' = [n \in (DOMAIN templates) \ {rec.template_name} |-> templates[n]]
    /\ UNCHANGED <<arg, out>>

\* A variant in which a call that registers a source for a stat overwrites the
\* sources the stat already has with it.
Returned_Reevaluates(rec, r) ==
    /\ resolver' = [i \in 1..Len(resolver) |->
                      IF /\ Len(r.regs) > 0
                         /\ r.regs[1].kind = "source"
                         /\ resolver[i].kind = "source"
                         /\ resolver[i].stat_id = r.regs[1].stat_id
                      THEN r.regs[1] ELSE resolver[i]] \o r.regs
    /\ last' = [rec EXCEPT !.res = r.res, !.before = resolver,
                           !.cache_before = entity_configs]
    /\ calls' = calls + 1
    /\ UNCHANGED <<templates, arg, out>>

\* A variant in which a call that registers units for a stat replaces the
\* registrations the stat already has.
Returned_Replaces(rec, r) ==
    /\ resolver' = LET Kept(g) == r.regs = <<>> \/ g.stat_id # r.regs[1].stat_id
                   IN  SelectSeq(resolver, Kept) \o r.regs
    /\ last' = [rec EXCEPT !.res = r.res, !.before = resolver,
                           !.cache_before = entity_configs]
    /\ calls' = calls + 1
    /\ UNCHANGED <<templates, arg, out>>

\* The effect of a call on the resolver and the record of the call.
Returned(rec, r) ==
    /\ resolver' = resolver \o r.regs
    /\ last' = [rec EXCEPT !.res = r.res, !.before = resolver,
                           !.cache_before = entity_configs]
    /\ calls' = calls + 1
    /\ UNCHANGED <<templates, arg, out>>

ReturnedBatch(rec, r) ==
    Returned([rec EXCEPT !.failed = r.failed], r)

ApplyTemplate(template_name, stat_name, params) ==
    /\ Running
    /\ Returned([NoCall EXCEPT !.op = "apply_template",
                               !.template_name = template_name,
                               !.stat_name = stat_name, !.params = params],
                apply_template(templates, template_name, stat_name, params))
    /\ UNCHANGED entity_configs

ApplyTemplates(applications) ==
    /\ Running
    /\ ReturnedBatch([NoCall EXCEPT !.op = "apply_templates", !.batch = applications],
                     ApplyAll(templates, applications, 1, BatchProgress(Ok(None), <<>>, 0)))
    /\ UNCHANGED entity_configs

\* The applications load_entity_stats / load_entity make for a batch of
\* records under the entity ids given.
BatchApplications(entity_ids, configs) ==
    [i \in 1..Len(configs) |->
        Application(configs[i].template_name,
                    entity_stat_id(entity_ids[i], configs[i].stat_type),
                    configs[i].params)]

\* A variant that saves the records of a batch to the cache whether or not
\* the batch succeeded.
CacheAfter_Always(r, configs) == SaveToCache(entity_configs, configs, 1)

\* "Save to cache" is reached only when every apply_template succeeded.
CacheAfter(r, configs) ==
    IF IsOk(r.res) THEN SaveToCache(entity_configs, configs, 1) ELSE entity_configs

LoadEntityStats(configs) ==
    /\ Running
    /\ ReturnedBatch([NoCall EXCEPT !.op = "load_entity_stats", !.batch = configs],
                     ApplyAll(templates,
                              BatchApplications([i \in 1..Len(configs) |->
                                                    configs[i].entity_id], configs),
                              1, BatchProgress(Ok(None), <<>>, 0)))
    /\ entity_configs' =
          CacheAfter(ApplyAll(templates,
                              BatchApplications([i \in 1..Len(configs) |->
                                                    configs[i].entity_id], configs),
                              1, BatchProgress(Ok(None), <<>>, 0)),
                     configs)

LoadEntity(entity_id, stat_configs) ==
    /\ Running
    /\ ReturnedBatch([NoCall EXCEPT !.op = "load_entity", !.entity_id = entity_id,
                                    !.batch = stat_configs],
                     ApplyAll(templates,
                              BatchApplications([i \in 1..Len(stat_configs) |-> entity_id],
                                                stat_configs),
                              1, BatchProgress(Ok(None), <<>>, 0)))
    /\ UNCHANGED entity_configs

AddSourceToEntity(entity_id, stat_type, source) ==
    /\ Running
    /\ Returned([NoCall EXCEPT !.op = "add_source_to_entity", !.entity_id = entity_id,
                               !.stat_name = stat_type],
                Progress(Ok(None),
                         <<register_source(entity_stat_id(entity_id, stat_type), source)>>))
    /\ UNCHANGED entity_configs

AddTransformToEntity(entity_id, stat_type, transform) ==
    /\ Running
    /\ Returned([NoCall EXCEPT !.op = "add_transform_to_entity", !.entity_id = entity_id,
                               !.stat_name = stat_type],
                Progress(Ok(None),
                         <<register_transform(entity_stat_id(entity_id, stat_type),
                                              transform)>>))
    /\ UNCHANGED entity_configs

\* templates_to_json(&self): the document is returned, nothing is changed.
TemplatesToJsonCall ==
    /\ Running
    /\ Returned([NoCall EXCEPT !.op = "templates_to_json"],
                Progress(Ok(templates_to_json(templates)), <<>>))
    /\ UNCHANGED entity_configs

Next ==
    \/ \E c \in TemplateCalls : ApplyTemplate(c[1], c[2], c[3])
    \/ \E apps \in BatchesOf(Applications, MaxBatch) : ApplyTemplates(apps)
    \/ \E cs \in BatchesOf(EntityConfigs, MaxBatch) : LoadEntityStats(cs)
    \/ \E e \in {A, AB}, cs \in BatchesOf(BorrowedConfigs, MaxBatch) : LoadEntity(e, cs)
    \/ \E e \in {A, B} : AddSourceToEntity(e, H, ConstantSource(7))
    \/ \E e \in {A, B} : AddTransformToEntity(e, H, AdditiveTransform(7))
    \/ TemplatesToJsonCall

Spec == Init /\ [][Next]_vars

(***************************************************************************)
(* SourceValue::resolve as a function of its inputs: Init draws a value    *)
(* and a parameter table, Resolve applies the function once.               *)
(***************************************************************************)
Alphabet == {"{", "}", " ", "x", "1"}

Strings == SeqsUpTo(Alphabet, MaxStrLen)

ResolveParamTables ==
    {EmptyParams,
     [k \in {x} |-> 7],
     [k \in {x, <<>>, <<"1">>, <<"x", " ">>, <<"{", "x">>} |->
        CASE k = x -> 7 [] k = <<>> -> 8 [] k = <<"1">> -> 9 [] OTHER -> 5]}

InitResolve ==
    /\ templates = <<>>
    /\ entity_configs = <<>>
    /\ resolver = <<>>
    /\ last = NoCall
    /\ calls = 0
    /\ arg \in [sv : {String(s) : s \in Strings} \cup {Number(3)},
                params : ResolveParamTables]
    /\ out = <<>>

Resolve ==
    /\ out = <<>>
    /\ out' = [res |-> resolve(arg.sv, arg.params), params |-> arg.params]
    /\ UNCHANGED <<templates, entity_configs, resolver, last, calls, arg>>

NextResolve == Resolve

SpecResolve == InitResolve /\ [][NextResolve]_vars

(***************************************************************************)
(* Source compilation as a function of its inputs: Init draws a source     *)
(* description and a parameter table; the template path (resolve_source)   *)
(* or the direct-definition path (build_source) compiles it.               *)
(***************************************************************************)
SourceValues ==
    {Number(0), Number(2), Number(0 - 3), String(<<"4">>), Placeholder(x), Placeholder(l)}

SourceConfigs ==
    {Constant(v) : v \in SourceValues}
    \cup {Scaling(b, s, lv) : b \in SourceValues, s \in SourceValues,
                              lv \in {None} \cup {Some(v) : v \in SourceValues}}

InitSource ==
    /\ templates = <<>>
    /\ entity_configs = <<>>
    /\ resolver = <<>>
    /\ last = NoCall
    /\ calls = 0
    /\ arg \in [config : SourceConfigs, params : ParamTables]
    /\ out = <<>>

ResolveSource ==
    /\ out = <<>>
    /\ out' = [fn |-> "resolve_source", res |-> resolve_source(arg.config, arg.params)]
    /\ UNCHANGED <<templates, entity_configs, resolver, last, calls, arg>>

BuildSource ==
    /\ out = <<>>
    /\ out' = [fn |-> "build_source", res |-> build_source(arg.config)]
    /\ UNCHANGED <<templates, entity_configs, resolver, last, calls, arg>>

NextSource == ResolveSource \/ BuildSource

SpecSource == InitSource /\ [][NextSource]_vars

(***************************************************************************)
(* Unit application: StatTransform::apply of each unit, as a function of   *)
(* the current value and the dependency values handed in by the resolver.  *)
(***************************************************************************)
MissingDependency(dep_id) == [variant |-> "MissingDependency", name |-> dep_id]

\* dependencies.get(dep_id).copied().unwrap_or(0.0)
DepValueOrZero(dependency_values, dep_id) ==
    IF dep_id \in DOMAIN dependency_values THEN Ok(dependency_values[dep_id]) ELSE Ok(0)

\* dependencies.get(dep_id).copied().ok_or_else(|| MissingDependency(dep_id))
DepValue(dependency_values, dep_id) ==
    IF dep_id \in DOMAIN dependency_values
    THEN Ok(dependency_values[dep_id])
    ELSE Err(MissingDependency(dep_id))

RECURSIVE MapSum(_, _, _, _)
\* `?` on the looked-up value, then sum += dep_value
MapStep(dependencies, i, dependency_values, sum, r) ==
    IF IsOk(r) THEN MapSum(dependencies, i + 1, dependency_values, sum + r.val) ELSE r

\* for dep_id in &self.dependencies { .. }
MapSum(dependencies, i, dependency_values, sum) ==
    IF i > Len(dependencies) THEN Ok(sum)
    ELSE MapStep(dependencies, i, dependency_values, sum,
                 DepValue(dependency_values, dependencies[i]))

\* Ok(value + (sum * self.multiplier))
MapResult(value, s, multiplier) ==
    IF IsOk(s) THEN Ok(value + (s.val * multiplier)) ELSE s

Abs(n) == IF n < 0 THEN 0 - n ELSE n

\* ConditionalOperator::evaluate with >= compiled as >.
evaluate_Strict(operator, stat_value, condition_value) ==
    CASE operator = "GreaterThan" -> stat_value > condition_value
      [] operator = "LessThan" -> stat_value < condition_value
      [] operator = "GreaterThanOrEqual" -> stat_value > condition_value
      [] operator = "LessThanOrEqual" -> stat_value <= condition_value
      [] operator = "Equal" -> Abs(stat_value - condition_value) = 0

\* ConditionalOperator::evaluate.  Equal is |difference| < f64::EPSILON; of the
\* integer differences of the model only 0 is below EPSILON.
evaluate(operator, stat_value, condition_value) ==
    CASE operator = "GreaterThan" -> stat_value > condition_value
      [] operator = "LessThan" -> stat_value < condition_value
      [] operator = "GreaterThanOrEqual" -> stat_value >= condition_value
      [] operator = "LessThanOrEqual" -> stat_value <= condition_value
      [] operator = "Equal" -> Abs(stat_value - condition_value) = 0

\* dependencies.get(&self.condition_stat_id).copied().unwrap_or(1.0)
ConditionValueOrOne(dependency_values, condition_stat_id) ==
    IF condition_stat_id \in DOMAIN dependency_values
    THEN dependency_values[condition_stat_id]
    ELSE 1

\* dependencies.get(&self.condition_stat_id).copied().unwrap_or(0.0)
ConditionValue(dependency_values, condition_stat_id) ==
    IF condition_stat_id \in DOMAIN dependency_values
    THEN dependency_values[condition_stat_id]
    ELSE 0

\* zzstat's MultiplicativeTransform::apply: the current value times the factor.
MultiplicativeApply(value, factor) == value * factor

\* zzstat's ClampTransform::apply for min <= max: the value brought into
\* [min, max]; an absent bound is infinite and never binds.
ClampApply(value, min, max) ==
    IF min.inf = 0 /\ value < min.v THEN min.v
    ELSE IF max.inf = 0 /\ value > max.v THEN max.v
    ELSE value

RECURSIVE apply(_, _, _)
\* A variant that applies both branches before it selects, and fails when
\* either of them fails.
Routed_Eager(u, value, dependency_values, condition_met) ==
    IF IsErr(apply(u.then_transform, value, dependency_values))
    THEN apply(u.then_transform, value, dependency_values)
    ELSE IF u.else_transform # None
            /\ IsErr(apply(u.else_transform[1], value, dependency_values))
         THEN apply(u.else_transform[1], value, dependency_values)
         ELSE IF condition_met THEN apply(u.then_transform, value, dependency_values)
              ELSE IF u.else_transform # None
                   THEN apply(u.else_transform[1], value, dependency_values)
                   ELSE Ok(value)

\* if condition_met { then.apply } else if let Some(else) { else.apply } else { Ok(value) }
Routed(u, value, dependency_values, condition_met) ==
    IF condition_met THEN apply(u.then_transform, value, dependency_values)
    ELSE IF u.else_transform # None
         THEN apply(u.else_transform[1], value, dependency_values)
         ELSE Ok(value)

apply(u, value, dependency_values) ==
    CASE u.unit = "AdditiveTransform" -> Ok(value + u.value)
      [] u.unit = "MultiplicativeTransform" -> Ok(MultiplicativeApply(value, u.value))
      [] u.unit = "ClampTransform" -> Ok(ClampApply(value, u.min, u.max))
      [] u.unit = "MapTransform" ->
            MapResult(value, MapSum(u.dependencies, 1, dependency_values, 0),
                      u.multiplier)
      [] u.unit = "ConditionalTransform" ->
            Routed(u, value, dependency_values,
                   evaluate(u.operator,
                            ConditionValue(dependency_values, u.condition_stat_id),
                            u.condition_value))

(***************************************************************************)
(* Unit application as a function of its inputs: Init draws a compiled     *)
(* transform, a current value and a table of dependency values; Apply and  *)
(* DependsOn call the unit once.                                           *)
(***************************************************************************)
Operators ==
    {"GreaterThan", "LessThan", "GreaterThanOrEqual", "LessThanOrEqual", "Equal"}

LeafUnits ==
    {AdditiveTransform(1), MultiplicativeTransform(2), ClampTransform(Fin(0), Fin(10)),
     MapTransform(<<S, L>>, 2), MapTransform(<<M>>, 1), MapTransform(<<>>, 3)}

BranchUnits == {AdditiveTransform(1), MapTransform(<<S, L>>, 2), MapTransform(<<M>>, 1)}

ConditionalUnits ==
    {ConditionalTransform(c, cv, op, th, el) :
        c \in {S, L}, cv \in {0, 5}, op \in Operators, th \in BranchUnits,
        el \in {None} \cup {Some(AdditiveTransform(0 - 1)), Some(MapTransform(<<M>>, 1))}}

NestedUnits ==
    {ConditionalTransform(L, 5, op, th, Some(c)) :
        op \in {"GreaterThan", "GreaterThanOrEqual"},
        th \in {MapTransform(<<M>>, 1)},
        c \in {u \in ConditionalUnits : u.condition_stat_id = S /\ u.condition_value = 5}}
    \cup
    {ConditionalTransform(L, 5, "LessThan", c, None) :
        c \in {u \in ConditionalUnits : u.condition_stat_id = S /\ u.condition_value = 0}}

ApplyUnits == LeafUnits \cup ConditionalUnits \cup NestedUnits

Values == {0, 20, 0 - 3}

DependencyTables ==
    UNION {[d -> {0, 5, 10}] : d \in SUBSET {S, L}}
    \cup {[d \in {S, L, M} |-> 5]}

InitApply ==
    /\ templates = <<>>
    /\ entity_configs = <<>>
    /\ resolver = <<>>
    /\ last = NoCall
    /\ calls = 0
    /\ arg \in [unit : ApplyUnits, value : Values, dependencies : DependencyTables]
    /\ out = <<>>

Apply ==
    /\ out = <<>>
    /\ out' = [fn |-> "apply", res |-> apply(arg.unit, arg.value, arg.dependencies)]
    /\ UNCHANGED <<templates, entity_configs, resolver, last, calls, arg>>

DependsOn ==
    /\ out = <<>>
    /\ out' = [fn |-> "depends_on", res |-> depends_on(arg.unit)]
    /\ UNCHANGED <<templates, entity_configs, resolver, last, calls, arg>>

NextApply == Apply \/ DependsOn

SpecApply == InitApply /\ [][NextApply]_vars

(***************************************************************************)
(* Transform compilation as a function of its inputs: Init draws a         *)
(* transform description, a parameter table and a target stat name.        *)
(* ApplyOne applies a template holding just that transform to a fresh      *)
(* resolver; BuildTransform compiles it on the direct-definition path.     *)
(***************************************************************************)
OperatorStrings ==
    {<<">">>, <<"<">>, <<">", "=">>, <<"<", "=">>, <<"=", "=">>,
     <<"!", "=">>, <<"=">>, <<"=", ">">>, <<>>}

ClampBounds == {None, Some(Number(0)), Some(Number(5)), Some(Placeholder(x))}

LeafConfigs ==
    {Multiplicative(v) : v \in {Number(2), Placeholder(x)}}
    \cup {Additive(v) : v \in {Number(2), Placeholder(x)}}
    \cup {Clamp(mn, mx) : mn \in ClampBounds, mx \in ClampBounds}
    \cup {Map(d, m) : d \in {<<S>>, <<S, L>>}, m \in {None, Some(Placeholder(x))}}

BranchConfigs == {Additive(Number(2)), Map(<<S>>, None), Clamp(Some(Number(5)), Some(Number(0)))}

ConditionalConfigs ==
    {Conditional(L, 1, op, th, el) :
        op \in OperatorStrings, th \in BranchConfigs,
        el \in {None, Some(Additive(Placeholder(x))), Some(Map(<<S>>, None)),
                Some(Additive(String(<<"x">>)))}}

NestedConfigs ==
    {Conditional(S, 0, op, Additive(Number(2)), Some(c)) :
        op \in {<<">">>, <<"!", "=">>}, c \in ConditionalConfigs}
    \cup {Conditional(S, 0, <<"<">>, c, None) : c \in ConditionalConfigs}
    \cup {Conditional(M, 0, <<"=", "=">>, Additive(Number(2)),
                      Some(Conditional(S, 0, <<"<">>, c, None))) :
             c \in {k \in ConditionalConfigs :
                       k.then = Additive(Number(2)) /\ k.else_then = None}}

TransformConfigs == LeafConfigs \cup ConditionalConfigs \cup NestedConfigs

\* The template table holding the one transform under study.
OneTransform(config) == [n \in {"T"} |-> StatTemplate(<<>>, <<config>>)]

InitTransform ==
    /\ templates = <<>>
    /\ entity_configs = <<>>
    /\ resolver = <<>>
    /\ last = NoCall
    /\ calls = 0
    /\ arg \in [config : TransformConfigs, params : ParamTables,
                stat_name : {H, FormatColon(A, H)}]
    /\ out = <<>>

ApplyOne ==
    /\ out = <<>>
    /\ out' = [fn |-> "apply_template",
               r |-> apply_template(OneTransform(arg.config), "T", arg.stat_name,
                                    arg.params)]
    /\ UNCHANGED <<templates, entity_configs, resolver, last, calls, arg>>

BuildTransform ==
    /\ out = <<>>
    /\ out' = [fn |-> "build_transform",
               r |-> Progress(build_transform(arg.config), <<>>)]
    /\ UNCHANGED <<templates, entity_configs, resolver, last, calls, arg>>

NextTransform == ApplyOne \/ BuildTransform

SpecTransform == InitTransform /\ [][NextTransform]_vars

(***************************************************************************)
(* The direct stat loader: StatLoader::build_resolver (loader.rs) over the *)
(* `stats` table of a configuration.  `order` is the order in which the    *)
(* HashMap of stats is iterated; it is the same in both loops.             *)
(***************************************************************************)
StatDefinition(sources, transforms) == [sources |-> sources, transforms |-> transforms]

\* for source_config in &definition.sources { build_source(..)?; register_source(..) }
RECURSIVE BuildSources(_, _, _, _)
BuildSources(sources, i, stat_id, st) ==
    IF i > Len(sources) \/ ~IsOk(st.res) THEN st
    ELSE BuildSources(sources, i + 1, stat_id,
                      Registered(st, build_source(sources[i]),
                                 register_source(stat_id, build_source(sources[i]).val)))

\* A transform loop that registers a definition's transforms last to first.
RECURSIVE BuildTransformsReversed(_, _, _, _)
BuildTransformsReversed(transforms, i, stat_id, st) ==
    IF i > Len(transforms) \/ ~IsOk(st.res) THEN st
    ELSE BuildTransformsReversed(transforms, i + 1, stat_id,
             Registered(st, build_transform(transforms[Len(transforms) + 1 - i]),
                        register_transform(stat_id,
                            build_transform(transforms[Len(transforms) + 1 - i]).val)))

\* for transform_config in &definition.transforms { build_transform(..)?; register_transform(..) }
RECURSIVE BuildTransforms(_, _, _, _)
BuildTransforms(transforms, i, stat_id, st) ==
    IF i > Len(transforms) \/ ~IsOk(st.res) THEN st
    ELSE BuildTransforms(transforms, i + 1, stat_id,
                         Registered(st, build_transform(transforms[i]),
                                    register_transform(stat_id,
                                                       build_transform(transforms[i]).val)))

\* "Register sources": for (stat_name, definition) in &config.stats { .. }
RECURSIVE RegisterSources(_, _, _, _)
RegisterSources(stats, order, k, st) ==
    IF k > Len(order) \/ ~IsOk(st.res) THEN st
    ELSE RegisterSources(stats, order, k + 1,
                         BuildSources(stats[order[k]].sources, 1, order[k], st))

\* "Register transformations": for (stat_name, definition) in &config.stats { .. }
RECURSIVE RegisterTransforms(_, _, _, _)
RegisterTransforms(stats, order, k, st) ==
    IF k > Len(order) \/ ~IsOk(st.res) THEN st
    ELSE RegisterTransforms(stats, order, k + 1,
                            BuildTransforms(stats[order[k]].transforms, 1, order[k], st))

\* A variant that hands back the resolver as far as it was built.
Built_Partial(st) == st

\* Ok(resolver), or the error of the first `?` that failed: the resolver
\* under construction is dropped with its registrations.
Built(st) == IF IsOk(st.res) THEN st ELSE Progress(st.res, <<>>)

build_resolver(stats, order) ==
    Built(RegisterTransforms(stats, order, 1,
              RegisterSources(stats, order, 1, Progress(Ok(None), <<>>))))

(***************************************************************************)
(* The external resolver's evaluation of a stat over the registrations it  *)
(* holds: the stat's sources are summed, then its transforms are applied   *)
(* in registration order, each to the running value and to the resolved    *)
(* values of the identifiers it declares.  `depth` bounds the chain of     *)
(* dependencies followed; a chain that outruns it is a cycle.              *)
(***************************************************************************)
StatIds(regs) == {regs[i].stat_id : i \in 1..Len(regs)}

RECURSIVE SumSources(_, _, _, _)
SumSources(regs, stat_id, i, sum) ==
    IF i > Len(regs) THEN sum
    ELSE SumSources(regs, stat_id, i + 1,
                    IF regs[i].kind = "source" /\ regs[i].stat_id = stat_id
                    THEN sum + regs[i].unit.value ELSE sum)

\* The first declared identifier whose resolution failed, if any.
RECURSIVE FirstFailed(_, _, _)
FirstFailed(ids, i, resolved) ==
    IF i > Len(ids) THEN Ok(None)
    ELSE IF IsErr(resolved[ids[i]]) THEN resolved[ids[i]]
    ELSE FirstFailed(ids, i + 1, resolved)

\* One transform on the running value, given its dependencies' resolutions.
Transformed(u, acc, resolved) ==
    IF ~IsOk(acc) THEN acc
    ELSE IF IsErr(FirstFailed(depends_on(u), 1, resolved))
         THEN FirstFailed(depends_on(u), 1, resolved)
         ELSE apply(u, acc.val, [d \in DOMAIN resolved |-> resolved[d].val])

RECURSIVE ResolveStat(_, _, _)
RECURSIVE ApplyTransforms(_, _, _, _, _)
ApplyTransforms(regs, stat_id, i, acc, depth) ==
    IF i > Len(regs) THEN acc
    ELSE ApplyTransforms(regs, stat_id, i + 1,
             IF regs[i].kind = "transform" /\ regs[i].stat_id = stat_id
             THEN Transformed(regs[i].unit, acc,
                      [d \in {depends_on(regs[i].unit)[j] :
                                 j \in 1..Len(depends_on(regs[i].unit))} |->
                          ResolveStat(regs, d, depth - 1)])
             ELSE acc,
             depth)

ResolveStat(regs, stat_id, depth) ==
    IF stat_id \notin StatIds(regs) THEN Err([variant |-> "StatNotFound", name |-> stat_id])
    ELSE IF depth = 0 THEN Err([variant |-> "Cycle", name |-> stat_id])
    ELSE ApplyTransforms(regs, stat_id, 1, Ok(SumSources(regs, stat_id, 1, 0)), depth)

\* resolver.resolve(&stat_id, &context)
resolve_stat(regs, stat_id) == ResolveStat(regs, stat_id, Cardinality(StatIds(regs)))

(***************************************************************************)
(* Loading a configuration's direct stat definitions and resolving one of  *)
(* them: Init draws the `stats` table, LoadFromJson builds the resolver,   *)
(* ResolveLoaded resolves a stat on it.                                    *)
(***************************************************************************)
Definitions ==
    {StatDefinition(<<Constant(Number(100)), Constant(Number(50))>>,
                    <<Multiplicative(Number(2))>>),
     StatDefinition(<<Constant(Number(50))>>, <<Additive(Number(10))>>),
     StatDefinition(<<Scaling(Number(1), Number(2), Some(Number(3))), Constant(Number(5))>>,
                    <<Additive(Number(10)), Multiplicative(String(<<"2">>)),
                      Clamp(Some(Number(0)), Some(Number(30)))>>),
     StatDefinition(<<Constant(Number(1))>>,
                    <<Multiplicative(Number(2)), Additive(Number(10))>>),
     StatDefinition(<<Constant(Number(1)), Constant(Placeholder(x))>>, <<>>),
     StatDefinition(<<Constant(Number(2))>>, <<Map(<<M>>, None)>>),
     StatDefinition(<<Constant(Number(4))>>,
                    <<Additive(Number(1)), Additive(String(<<"x">>))>>),
     StatDefinition(<<Constant(Number(3))>>,
                    <<Conditional(M, 5, <<">", "=">>, Additive(Number(1)), None)>>),
     StatDefinition(<<Constant(Number(1))>>,
                    <<Additive(Number(1)), Clamp(None, Some(Placeholder(l)))>>),
     StatDefinition(<<Constant(Number(2))>>,
                    <<Conditional(M, 5, <<">">>, Additive(Number(1)),
                                  Some(Map(<<M>>, Some(Placeholder(x)))))>>)}

StatTables == UNION {[names -> Definitions] : names \in {{H}, {H, M}}}

\* The orders in which a table's keys can be iterated.
Orders(names) ==
    {o \in [1..Cardinality(names) -> names] :
        \A i, j \in 1..Cardinality(names) : o[i] = o[j] => i = j}

InitLoader ==
    /\ templates = <<>>
    /\ entity_configs = <<>>
    /\ resolver = <<>>
    /\ last = NoCall
    /\ calls = 0
    /\ arg \in [stats : StatTables]
    /\ out = <<>>

LoadFromJson ==
    /\ out = <<>>
    /\ \E order \in Orders(DOMAIN arg.stats) :
          /\ resolver' = build_resolver(arg.stats, order).regs
          /\ out' = [fn |-> "from_json", res |-> build_resolver(arg.stats, order).res]
    /\ UNCHANGED <<templates, entity_configs, last, calls, arg>>

ResolveLoaded ==
    /\ out # <<>>
    /\ out.fn = "from_json"
    /\ IsOk(out.res)
    /\ \E stat_name \in DOMAIN arg.stats :
          out' = [fn |-> "resolve", stat_name |-> stat_name,
                  res |-> resolve_stat(resolver, stat_name)]
    /\ UNCHANGED <<templates, entity_configs, resolver, last, calls, arg>>

NextLoader == LoadFromJson \/ ResolveLoaded

SpecLoader == InitLoader /\ [][NextLoader]_vars

(***************************************************************************)
(* A template and the direct definition it stands for.  Init draws a       *)
(* template and a parameter table and pairs them with the direct stat      *)
(* definition obtained by writing each placeholder's value in its place;   *)
(* ApplyGlobal applies the template to the global stat "H" on a fresh      *)
(* resolver, LoadDirect loads a configuration whose stat "H" is the direct *)
(* definition, and ResolveH resolves "H" on the resolver obtained.         *)
(***************************************************************************)
\* The parameter name a "{{ name }}" string refers to.
PlaceholderName(s) == Trim(SubSeq(s, 3, Len(s) - 2))

IsPlaceholder(sv) ==
    /\ sv.t = "String"
    /\ StartsWith(sv.s, <<"{", "{">>)
    /\ EndsWith(sv.s, <<"}", "}">>)

\* A value expression with a placeholder replaced by its value in params.
SubstValue(sv, params) ==
    IF IsPlaceholder(sv) /\ PlaceholderName(sv.s) \in DOMAIN params
    THEN Number(params[PlaceholderName(sv.s)])
    ELSE sv

SubstOption(opt, params) ==
    IF opt = None THEN None ELSE Some(SubstValue(opt[1], params))

SubstSource(config, params) ==
    IF config.type = "constant" THEN Constant(SubstValue(config.value, params))
    ELSE Scaling(SubstValue(config.base, params), SubstValue(config.scale, params),
                 SubstOption(config.level, params))

RECURSIVE SubstTransform(_, _)
SubstTransform(config, params) ==
    CASE config.type = "multiplicative" -> Multiplicative(SubstValue(config.value, params))
      [] config.type = "additive" -> Additive(SubstValue(config.value, params))
      [] config.type = "clamp" ->
            Clamp(SubstOption(config.min, params), SubstOption(config.max, params))
      [] config.type = "conditional" ->
            Conditional(config.condition_stat, config.condition_value, config.operator,
                        SubstTransform(config.then, params),
                        IF config.else_then = None THEN None
                        ELSE Some(SubstTransform(config.else_then[1], params)))
      [] config.type = "map" ->
            Map(config.dependencies, SubstOption(config.multiplier, params))

Substituted(template, params) ==
    StatDefinition(
        [i \in 1..Len(template.sources) |-> SubstSource(template.sources[i], params)],
        [i \in 1..Len(template.transforms) |->
            SubstTransform(template.transforms[i], params)])

SourceLists ==
    {<<>>,
     <<Constant(Placeholder(x))>>,
     <<Constant(Placeholder(x)), Scaling(Number(0), Placeholder(l), Some(Placeholder(x)))>>,
     <<Scaling(Placeholder(x), Number(2), None)>>,
     <<Constant(String(<<"4">>)), Constant(Number(1))>>,
     <<Constant(String(<<"{", "{", " ", "x", " ", "}", "}">>))>>}

TransformLists ==
    {<<>>,
     <<Multiplicative(Placeholder(l))>>,
     <<Additive(Placeholder(x)), Clamp(Some(Number(0)), Some(Placeholder(l)))>>,
     <<Clamp(None, Some(Placeholder(x))), Multiplicative(Number(2))>>,
     <<Map(<<S>>, Some(Placeholder(x)))>>,
     <<Conditional(L, 1, <<">">>, Map(<<S>>, Some(Placeholder(x))),
                   Some(Additive(Placeholder(l))))>>,
     <<Additive(Number(1)), Additive(String(<<"x">>))>>}

InitDirect ==
    /\ templates = <<>>
    /\ entity_configs = <<>>
    /\ resolver = <<>>
    /\ last = NoCall
    /\ calls = 0
    /\ arg \in {[template |-> StatTemplate(ss, ts), params |-> p,
                 direct |-> Substituted(StatTemplate(ss, ts), p)] :
                   ss \in SourceLists, ts \in TransformLists, p \in ParamTables}
    /\ out = <<>>

\* The template table holding the one template under study.
OneTemplate(template) == [n \in {"T"} |-> template]

ApplyGlobal ==
    /\ out = <<>>
    /\ resolver' = apply_template(OneTemplate(arg.template), "T", H, arg.params).regs
    /\ out' = [fn |-> "apply_template",
               r |-> apply_template(OneTemplate(arg.template), "T", H, arg.params)]
    /\ UNCHANGED <<templates, entity_configs, last, calls, arg>>

LoadDirect ==
    /\ out = <<>>
    /\ resolver' = build_resolver([n \in {H} |-> arg.direct], <<H>>).regs
    /\ out' = [fn |-> "from_json",
               r |-> build_resolver([n \in {H} |-> arg.direct], <<H>>)]
    /\ UNCHANGED <<templates, entity_configs, last, calls, arg>>

ResolveH ==
    /\ out # <<>>
    /\ out.fn \in {"apply_template", "from_json"}
    /\ IsOk(out.r.res)
    /\ out' = [fn |-> "resolve", path |-> out.fn, r |-> out.r,
               res |-> resolve_stat(resolver, H)]
    /\ UNCHANGED <<templates, entity_configs, resolver, last, calls, arg>>

NextDirect == ApplyGlobal \/ LoadDirect \/ ResolveH

SpecDirect == InitDirect /\ [][NextDirect]_vars

(***************************************************************************)
(* Reading the configuration form back (config.rs, serde derive).          *)
(***************************************************************************)
JsonParseError(msg) == [variant |-> "JsonParseError", msg |-> msg]

\* Deserialize for SourceValue: the first variant that matches, Number then String.
SourceValueFromJson(v) ==
    CASE v.j = "num" -> Ok(Number(v.n))
      [] v.j = "str" -> Ok(String(v.s))
      [] OTHER -> Err(JsonParseError("data did not match any variant"))

\* A required field of an object.
FieldFromJson(fields, name) ==
    IF name \in DOMAIN fields THEN SourceValueFromJson(fields[name])
    ELSE Err(JsonParseError("missing field"))

\* An Option field that reads null as Some(0).
OptionFromJson_NullIsZero(fields, name) ==
    IF name \notin DOMAIN fields THEN Ok(None)
    ELSE IF fields[name] = JNull THEN Ok(Some(Number(0)))
    ELSE SomeFrom(SourceValueFromJson(fields[name]))

\* Deserialize for an Option<SourceValue> field: None when the field is
\* missing or null.
OptionFromJson(fields, name) ==
    IF name \notin DOMAIN fields THEN Ok(None)
    ELSE IF fields[name] = JNull THEN Ok(None)
    ELSE SomeFrom(SourceValueFromJson(fields[name]))

ConstantCfg(v) == IF IsOk(v) THEN Ok(Constant(v.val)) ELSE v

ScalingCfg(b, sc, lv) ==
    IF ~IsOk(b) THEN b
    ELSE IF ~IsOk(sc) THEN sc
    ELSE IF ~IsOk(lv) THEN lv
    ELSE Ok(Scaling(b.val, sc.val, lv.val))

\* Deserialize for SourceConfig: the variant named by "type".
SourceFromJson(v) ==
    CASE v.fields.type = JStr("constant") -> ConstantCfg(FieldFromJson(v.fields, "value"))
      [] v.fields.type = JStr("scaling") ->
            ScalingCfg(FieldFromJson(v.fields, "base"), FieldFromJson(v.fields, "scale"),
                       OptionFromJson(v.fields, "level"))
      [] OTHER -> Err(JsonParseError("unknown variant"))

MultiplicativeCfg(v) == IF IsOk(v) THEN Ok(Multiplicative(v.val)) ELSE v

AdditiveCfg(v) == IF IsOk(v) THEN Ok(Additive(v.val)) ELSE v

ClampCfg(mn, mx) ==
    IF ~IsOk(mn) THEN mn
    ELSE IF ~IsOk(mx) THEN mx
    ELSE Ok(Clamp(mn.val, mx.val))

MapCfg(dependencies, m) == IF IsOk(m) THEN Ok(Map(dependencies, m.val)) ELSE m

ConditionalCfg(fields, th, el) ==
    IF ~IsOk(th) THEN th
    ELSE IF ~IsOk(el) THEN el
    ELSE Ok(Conditional(fields.condition_stat.s, fields.condition_value.n,
                        fields.operator.s, th.val, el.val))

\* Deserialize for TransformConfig: the variant named by "type".
RECURSIVE TransformFromJson(_)
TransformFromJson(v) ==
    CASE v.fields.type = JStr("multiplicative") ->
            MultiplicativeCfg(FieldFromJson(v.fields, "value"))
      [] v.fields.type = JStr("additive") -> AdditiveCfg(FieldFromJson(v.fields, "value"))
      [] v.fields.type = JStr("clamp") ->
            ClampCfg(OptionFromJson(v.fields, "min"), OptionFromJson(v.fields, "max"))
      [] v.fields.type = JStr("conditional") ->
            ConditionalCfg(v.fields, TransformFromJson(v.fields.then),
                           IF "else_then" \notin DOMAIN v.fields THEN Ok(None)
                           ELSE IF v.fields.else_then = JNull THEN Ok(None)
                           ELSE SomeFrom(TransformFromJson(v.fields.else_then)))
      [] v.fields.type = JStr("map") ->
            MapCfg([i \in 1..Len(v.fields.dependencies.items) |->
                       v.fields.dependencies.items[i].s],
                   OptionFromJson(v.fields, "multiplier"))
      [] OTHER -> Err(JsonParseError("unknown variant"))

\* Ok(the values of a sequence of results), or the first error among them.
RECURSIVE Collected(_, _, _)
Collected(results, i, acc) ==
    IF i > Len(results) THEN Ok(acc)
    ELSE IF ~IsOk(results[i]) THEN results[i]
    ELSE Collected(results, i + 1, Append(acc, results[i].val))

\* A Vec field with serde(default): empty when the field is missing.
ItemsOf(fields, name) == IF name \in DOMAIN fields THEN fields[name].items ELSE <<>>

TemplateCfg(ss, ts) ==
    IF ~IsOk(ss) THEN ss
    ELSE IF ~IsOk(ts) THEN ts
    ELSE Ok(StatTemplate(ss.val, ts.val))

\* Deserialize for StatTemplate.
TemplateFromJson(v) ==
    TemplateCfg(
        Collected([i \in 1..Len(ItemsOf(v.fields, "sources")) |->
                      SourceFromJson(ItemsOf(v.fields, "sources")[i])], 1, <<>>),
        Collected([i \in 1..Len(ItemsOf(v.fields, "transforms")) |->
                      TransformFromJson(ItemsOf(v.fields, "transforms")[i])], 1, <<>>))

\* The table of a document's templates, or the error of one that does not
\* deserialize.
TableFrom(loaded) ==
    IF \E n \in DOMAIN loaded : ~IsOk(loaded[n])
    THEN loaded[CHOOSE n \in DOMAIN loaded : ~IsOk(loaded[n])]
    ELSE Ok([n \in DOMAIN loaded |-> loaded[n].val])

\* StatTemplateManager::from_json: the manager's template table.
from_json(doc) ==
    IF "templates" \notin DOMAIN doc.fields THEN Ok(<<>>)
    ELSE TableFrom([n \in DOMAIN doc.fields.templates.fields |->
                       TemplateFromJson(doc.fields.templates.fields[n])])

\* The document with the null fields of every object left out, as a
\* hand-written document omits them.
RECURSIVE OmitNulls(_)
OmitNulls(v) ==
    CASE v.j = "obj" ->
            JObj([f \in {g \in DOMAIN v.fields : v.fields[g] # JNull} |->
                     OmitNulls(v.fields[f])])
      [] v.j = "arr" -> JArr([i \in 1..Len(v.items) |-> OmitNulls(v.items[i])])
      [] OTHER -> v

(***************************************************************************)
(* Saving and reloading the template table: Init draws the table a manager *)
(* holds, TemplatesToJson serializes it, FromJson builds a manager from    *)
(* the document written (or from the same document without its nulls).     *)
(***************************************************************************)
JsonTransformLists ==
    TransformLists
    \cup {<<Clamp(None, None)>>,
          <<Map(<<S, L>>, None), Clamp(Some(Placeholder(x)), None)>>,
          <<Multiplicative(String(<<"2">>))>>,
          <<Conditional(L, 1, <<">", "=">>, Clamp(None, Some(Number(5))), None)>>,
          <<Conditional(L, 1, <<"!", "=">>, Additive(Number(1)), None)>>,
          <<Conditional(S, 0, <<"<">>, Additive(Number(1)),
                Some(Conditional(L, 1, <<"=", "=">>, Map(<<S>>, None),
                         Some(Multiplicative(Placeholder(l))))))>>}

JsonTables ==
    {[n \in {"T"} |-> StatTemplate(ss, ts)] : ss \in SourceLists, ts \in JsonTransformLists}
    \cup {TemplateTable, <<>>}

InitJson ==
    /\ templates \in JsonTables
    /\ entity_configs = <<>>
    /\ resolver = <<>>
    /\ last = NoCall
    /\ calls = 0
    /\ arg = <<>>
    /\ out = <<>>

TemplatesToJson ==
    /\ out = <<>>
    /\ out' = [fn |-> "templates_to_json", json |-> templates_to_json(templates)]
    /\ UNCHANGED <<templates, entity_configs, resolver, last, calls, arg>>

FromJson ==
    /\ out # <<>>
    /\ out.fn = "templates_to_json"
    /\ \E doc \in {out.json, OmitNulls(out.json)} :
          out' = [fn |-> "from_json", json |-> doc, res |-> from_json(doc)]
    /\ UNCHANGED <<templates, entity_configs, resolver, last, calls, arg>>

NextJson == TemplatesToJson \/ FromJson

SpecJson == InitJson /\ [][NextJson]_vars

(***************************************************************************)
(* Properties.                                                             *)
(***************************************************************************)
\* The registrations made by the last call.
Segment == SubSeq(resolver, Len(last.before) + 1, Len(resolver))

HasNoColon(s) == \A i \in 1..Len(s) : s[i] # ":"

\* The identifier a top-level dependency name d is expected to get for a
\* target: "E:d" for a target "E:S" with non-empty E, d for a target without ':'.
\* The set is empty for a target that has neither form.
ExpectedIds(target, d) ==
    {FormatColon(SubSeq(target, 1, k), d) :
        k \in {j \in 1..Len(target) - 1 :
                  HasNoColon(SubSeq(target, 1, j)) /\ target[j + 1] = ":"}}
    \cup (IF HasNoColon(target) THEN {d} ELSE {})

AppliedTemplate ==
    /\ last.op = "apply_template"
    /\ last.template_name \in DOMAIN templates

LastTemplate == templates[last.template_name]

\* The declared top-level dependencies of a unit: a Map's dependency list, a
\* Conditional's condition stat.
TopLevelDeps(u) ==
    CASE u.unit = "MapTransform" -> u.dependencies
      [] u.unit = "ConditionalTransform" -> <<u.condition_stat_id>>
      [] OTHER -> <<>>

\* C1: apply_template to "E:S" (E non-empty) registers every top-level Map
\* dependency d, and every top-level Conditional condition stat d, as exactly
\* "E:d"; a target without ':' registers it as d; no top-level dependency of a
\* unit registered under "A:H" is B-prefixed and vice versa.
C1_TopLevelScoping ==
    /\ AppliedTemplate =>
          LET tr == LastTemplate.transforms
              nsrc == Len(LastTemplate.sources)
          IN  \A j \in 1..Len(tr) :
                 (nsrc + j <= Len(Segment)) =>
                    LET u == Segment[nsrc + j].unit IN
                    /\ tr[j].type = "map" =>
                          /\ u.unit = "MapTransform"
                          /\ Len(depends_on(u)) = Len(tr[j].dependencies)
                          /\ \A i \in 1..Len(tr[j].dependencies) :
                                ExpectedIds(last.stat_name, tr[j].dependencies[i])
                                   = {depends_on(u)[i]}
                    /\ tr[j].type = "conditional" =>
                          /\ u.unit = "ConditionalTransform"
                          /\ ExpectedIds(last.stat_name, tr[j].condition_stat)
                                = {depends_on(u)[1]}
    /\ \A i \in 1..Len(resolver) :
          resolver[i].kind = "transform" =>
             LET deps == TopLevelDeps(resolver[i].unit) IN
             \A k \in 1..Len(deps) :
                /\ resolver[i].stat_id = FormatColon(A, H) => ~StartsWith(deps[k], <<"B", ":">>)
                /\ resolver[i].stat_id = FormatColon(B, H) => ~StartsWith(deps[k], <<"A", ":">>)

\* Witness of C1: the Base template stamped on A:H and on B:H, its Map scoped
\* to A and to B respectively.
C1_Witness ==
    /\ \E i \in 1..Len(resolver) :
          /\ resolver[i].stat_id = FormatColon(A, H)
          /\ resolver[i].unit.unit = "MapTransform"
          /\ resolver[i].unit.dependencies = <<FormatColon(A, S), FormatColon(A, L)>>
    /\ \E i \in 1..Len(resolver) :
          /\ resolver[i].stat_id = FormatColon(B, H)
          /\ resolver[i].unit.unit = "MapTransform"
          /\ resolver[i].unit.dependencies = <<FormatColon(B, S), FormatColon(B, L)>>
    /\ last.op = "apply_template"

\* C2: after apply_template to "E:S" with non-empty E, every identifier in the
\* dependency list of a registered Conditional (condition stat and everything
\* declared by its then/else branches) is E-prefixed.
C2_BranchScoping ==
    AppliedTemplate =>
       \A e \in {A, B} :
          StartsWith(last.stat_name, e \o <<":">>) =>
             \A i \in 1..Len(Segment) :
                Segment[i].unit.unit = "ConditionalTransform" =>
                   LET deps == depends_on(Segment[i].unit) IN
                   \A k \in 1..Len(deps) : StartsWith(deps[k], e \o <<":">>)

RECURSIVE CacheSizeOver(_, _)
CacheSizeOver(cache, keys) ==
    IF keys = {} THEN 0
    ELSE LET k == CHOOSE k \in keys : TRUE IN
         Len(cache[k]) + CacheSizeOver(cache, keys \ {k})

CacheSize(cache) == CacheSizeOver(cache, DOMAIN cache)

Cached(c) ==
    /\ c.entity_id \in DOMAIN entity_configs
    /\ \E j \in 1..Len(entity_configs[c.entity_id]) : entity_configs[c.entity_id][j] = c

\* C3 as stated: a successful apply_template leaves an Application Record
\* (entity id, stat type, template, params) for the call in the cache.
C3_ApplyRecords ==
    (last.op = "apply_template" /\ IsOk(last.res)) =>
       \E e \in DOMAIN entity_configs :
          \E j \in 1..Len(entity_configs[e]) :
             /\ entity_configs[e][j].template_name = last.template_name
             /\ entity_configs[e][j].params = last.params
             /\ entity_stat_id(e, entity_configs[e][j].stat_type) = last.stat_name

\* C3 amended: a successful load_entity_stats records one Application Record
\* per given config under the config's entity id (the cache grows by the
\* batch length); apply_template itself leaves the cache unchanged.
C3_LoadRecords ==
    /\ (last.op = "load_entity_stats" /\ IsOk(last.res)) =>
          /\ \A i \in 1..Len(last.batch) : Cached(last.batch[i])
          /\ CacheSize(entity_configs) = CacheSize(last.cache_before) + Len(last.batch)
    /\ last.op = "apply_template" => entity_configs = last.cache_before

\* Witness of C3: a successful load_entity_stats of two records, both cached.
C3_Witness ==
    /\ last.op = "load_entity_stats"
    /\ IsOk(last.res)
    /\ Len(last.batch) = 2
    /\ CacheSize(entity_configs) >= 2

\* C4: a successful apply_template appends exactly one source per Source
\* Description in template order, then one transform per Transform
\* Description in template order, all under the target stat.
C4_RegistrationOrder ==
    (AppliedTemplate /\ IsOk(last.res)) =>
       LET src == LastTemplate.sources
           tr == LastTemplate.transforms
           e == ExtractEntityId(last.stat_name)
       IN  /\ resolver = last.before \o Segment
           /\ Len(Segment) = Len(src) + Len(tr)
           /\ \A i \in 1..Len(src) :
                 Segment[i] = [kind |-> "source", stat_id |-> last.stat_name,
                               unit |-> resolve_source(src[i], last.params).val]
           /\ \A j \in 1..Len(tr) :
                 Segment[Len(src) + j] =
                    [kind |-> "transform", stat_id |-> last.stat_name,
                     unit |-> resolve_transform_with_entity(tr[j], last.params, e).val]

\* Witness of C4: the Base template (three sources, three transforms) applied
\* successfully on top of earlier registrations.
C4_Witness ==
    /\ AppliedTemplate
    /\ IsOk(last.res)
    /\ last.template_name = "Base"
    /\ Len(last.before) > 0
    /\ Len(Segment) = 6

\* The k-th unit description of a template, sources first, and its compilation.
CompileUnit(template, k, params, stat_name) ==
    IF k <= Len(template.sources)
    THEN resolve_source(template.sources[k], params)
    ELSE resolve_transform_with_entity(template.transforms[k - Len(template.sources)],
                                       params, ExtractEntityId(stat_name))

UnitKind(template, k) == IF k <= Len(template.sources) THEN "source" ELSE "transform"

\* C5: when apply_template does not succeed on an existing template, there is
\* a unit k whose compilation failed; the call returns that error, units
\* 1..k-1 of the call are registered after the earlier registrations and
\* nothing at position k or later is.
C5_NoRollback ==
    (AppliedTemplate /\ ~IsOk(last.res)) =>
       LET t == LastTemplate
           n == Len(t.sources) + Len(t.transforms)
           k == Len(Segment) + 1
       IN  /\ resolver = last.before \o Segment
           /\ k <= n
           /\ ~IsOk(CompileUnit(t, k, last.params, last.stat_name))
           /\ last.res = CompileUnit(t, k, last.params, last.stat_name)
           /\ \A i \in 1..(k - 1) :
                 Segment[i] = [kind |-> UnitKind(t, i), stat_id |-> last.stat_name,
                               unit |-> CompileUnit(t, i, last.params, last.stat_name).val]

\* Witness of C5: BadOp fails with an error at its third unit (the second
\* transform); its source and first transform stay registered.
C5_Witness ==
    /\ AppliedTemplate
    /\ IsErr(last.res)
    /\ last.template_name = "BadOp"
    /\ Len(Segment) = 2
    /\ Segment[2].kind = "transform"

\* C6: apply_template with a name that is not in the template table returns
\* the template-not-found configuration error and registers nothing.
C6_TemplateNotFound ==
    (last.op = "apply_template" /\ last.template_name \notin DOMAIN templates) =>
       /\ IsErr(last.res)
       /\ last.res.err.variant = "InvalidConfig"
       /\ last.res.err.ctx = "Template not found"
       /\ last.res.err.cause = last.template_name
       /\ resolver = last.before

\* Witness of C6: a missing template applied to a resolver that already holds
\* registrations.
C6_Witness ==
    /\ last.op = "apply_template"
    /\ last.template_name = "Missing"
    /\ Len(resolver) > 0
    /\ IsErr(last.res)

\* C7: every unit of a successful load_entity_stats is registered under
\* entity_id:stat_type of one of the loaded records, and every dependency it
\* declares is entity_id:d for the same record's entity id.
C7_LoadedScoping ==
    (last.op = "load_entity_stats" /\ IsOk(last.res)) =>
       \A i \in 1..Len(Segment) :
          \E b \in 1..Len(last.batch) :
             LET c == last.batch[b]
                 deps == IF Segment[i].kind = "transform"
                         THEN depends_on(Segment[i].unit) ELSE <<>>
             IN  /\ Segment[i].stat_id = FormatColon(c.entity_id, c.stat_type)
                 /\ \A k \in 1..Len(deps) :
                       \E d \in {S, L} : deps[k] = entity_stat_id(c.entity_id, d)

\* A string of the form "{{inner}}": both delimiters present and disjoint.
IsPlaceholderForm(s) ==
    /\ Len(s) >= 4
    /\ s[1] = "{" /\ s[2] = "{"
    /\ s[Len(s) - 1] = "}" /\ s[Len(s)] = "}"

\* The trimmed forms of a string: what is left after removing a whitespace
\* prefix and a whitespace suffix so that no whitespace is left at either end.
TrimsOf(inner) ==
    {SubSeq(inner, a + 1, Len(inner) - b) :
        <<a, b>> \in {p \in (0..Len(inner)) \X (0..Len(inner)) :
                        /\ p[1] + p[2] <= Len(inner)
                        /\ \A i \in 1..p[1] : inner[i] = " "
                        /\ \A i \in (Len(inner) - p[2] + 1)..Len(inner) : inner[i] = " "
                        /\ (p[1] + p[2] < Len(inner) =>
                               /\ inner[p[1] + 1] # " "
                               /\ inner[Len(inner) - p[2]] # " ")}}

Resolved == out # <<>>

\* C8: resolving "{{name}}" returns params[trimmed name] when that key is
\* present and fails with the missing-parameter error naming the trimmed name
\* when it is absent; the parameter table is the same afterwards.
C8_PlaceholderLookup ==
    (Resolved /\ arg.sv.t = "String" /\ IsPlaceholderForm(arg.sv.s)) =>
       LET inner == SubSeq(arg.sv.s, 3, Len(arg.sv.s) - 2) IN
       /\ \A name \in TrimsOf(inner) :
             IF name \in DOMAIN arg.params
             THEN out.res = [tag |-> "Ok", val |-> arg.params[name]]
             ELSE out.res = [tag |-> "Err",
                             err |-> [variant |-> "ParameterNotFound", name |-> name]]
       /\ TrimsOf(inner) # {}
       /\ out.params = arg.params

\* Witness of C8: "{{ x}}" resolved against a table holding x.
C8_Witness ==
    /\ Resolved
    /\ arg.sv = String(<<"{", "{", " ", "x", "}", "}">>)
    /\ x \in DOMAIN arg.params
    /\ out.res = Ok(7)

\* C9: resolving a string that is not of the form "{{...}}" yields its number
\* when it is numeric and the invalid-number error otherwise, whatever the
\* parameter table holds.
C9_NonPlaceholder ==
    (Resolved /\ arg.sv.t = "String" /\ ~IsPlaceholderForm(arg.sv.s)) =>
       IF ParseF64(arg.sv.s) # None
       THEN out.res = [tag |-> "Ok", val |-> ParseF64(arg.sv.s)[1]]
       ELSE out.res = [tag |-> "Err",
                       err |-> [variant |-> "InvalidNumber", name |-> arg.sv.s]]

\* Witness of C9: the bare string "x" resolved against a table that holds the
\* key x.
C9_Witness ==
    /\ Resolved
    /\ arg.sv = String(x)
    /\ x \in DOMAIN arg.params
    /\ out.res = Err([variant |-> "InvalidNumber", name |-> x])

Compiled == out # <<>> /\ IsOk(out.res)

\* The number a value expression stands for under a parameter table.
ValueOf(sv, params) == resolve(sv, params).val

ParamsOf(fn) == IF fn = "build_source" THEN EmptyParams ELSE arg.params

\* C10: a compiled Scaling source yields base + scale * level, with level
\* taken as 1 when omitted, and a description without level compiles to the
\* same unit as the one with level = 1; on the template path and on the
\* direct-definition path.
C10_Scaling ==
    (Compiled /\ arg.config.type = "scaling") =>
       LET p == ParamsOf(out.fn)
           c == arg.config
           lv == IF c.level = None THEN 1 ELSE ValueOf(c.level[1], p)
           one == Scaling(c.base, c.scale, Some(Number(1)))
       IN  /\ out.res.val = [unit |-> "ConstantSource",
                             value |-> ValueOf(c.base, p) + ValueOf(c.scale, p) * lv]
           /\ c.level = None =>
                 out.res = (IF out.fn = "build_source" THEN build_source(one)
                            ELSE resolve_source(one, arg.params))

\* Witness of C10: a Scaling description without level compiled on the
\* template path from placeholders, scale different from 1.
C10_Witness ==
    /\ Compiled
    /\ out.fn = "resolve_source"
    /\ arg.config = Scaling(Placeholder(x), Placeholder(l), None)
    /\ out.res.val.value = 5

\* The call of the unit under study has returned.
AppliedUnit == out # <<>> /\ out.fn = "apply"

\* The sum of the dependency values of a list of identifiers, all present.
RECURSIVE SumOf(_, _)
SumOf(ids, dependency_values) ==
    IF ids = <<>> THEN 0
    ELSE dependency_values[Head(ids)] + SumOf(Tail(ids), dependency_values)

\* The declared identifiers that have no dependency value.
AbsentIds(ids, dependency_values) ==
    {ids[i] : i \in 1..Len(ids)} \ DOMAIN dependency_values

\* C11: MapTransform.apply returns v + multiplier * (sum of the dependency
\* values) when every declared identifier has a value, and otherwise fails
\* with MissingDependency naming an absent identifier; an absent dependency
\* is never counted as zero.
C11_MapApply ==
    (AppliedUnit /\ arg.unit.unit = "MapTransform") =>
       IF AbsentIds(arg.unit.dependencies, arg.dependencies) = {}
       THEN out.res = Ok(arg.value + arg.unit.multiplier
                                      * SumOf(arg.unit.dependencies, arg.dependencies))
       ELSE /\ IsErr(out.res)
            /\ out.res.err.variant = "MissingDependency"
            /\ out.res.err.name \in AbsentIds(arg.unit.dependencies, arg.dependencies)

\* Witness of C11: v = 20, dependencies S = 10 and L = 5, multiplier 2 give 50.
C11_Witness ==
    /\ AppliedUnit
    /\ arg.unit = MapTransform(<<S, L>>, 2)
    /\ arg.value = 20
    /\ arg.dependencies = [d \in {S, L} |-> IF d = S THEN 10 ELSE 5]
    /\ out.res = Ok(50)

\* Whether the operator holds between the condition stat's value and the
\* threshold, with the boundary case spelled out.
Holds(operator, stat_value, condition_value) ==
    \/ operator \in {"GreaterThan", "GreaterThanOrEqual"} /\ stat_value > condition_value
    \/ operator \in {"LessThan", "LessThanOrEqual"} /\ stat_value < condition_value
    \/ /\ operator \in {"GreaterThanOrEqual", "LessThanOrEqual", "Equal"}
       /\ stat_value = condition_value

\* What the else side of a Conditional yields: the else branch, or identity.
ElseResult(u, value, dependency_values) ==
    IF u.else_transform = None THEN Ok(value)
    ELSE apply(u.else_transform[1], value, dependency_values)

\* C12: with the condition stat's value present, ConditionalTransform.apply
\* returns the then branch's result exactly when the operator holds between
\* that value and condition_value, and otherwise the else branch's result, or
\* the value unchanged when there is no else branch; at equality >= and <=
\* take the then branch and > and < do not.
C12_Routing ==
    (/\ AppliedUnit
     /\ arg.unit.unit = "ConditionalTransform"
     /\ arg.unit.condition_stat_id \in DOMAIN arg.dependencies) =>
       LET u == arg.unit
           sv == arg.dependencies[u.condition_stat_id]
       IN  /\ Holds(u.operator, sv, u.condition_value) =>
                 out.res = apply(u.then_transform, arg.value, arg.dependencies)
           /\ ~Holds(u.operator, sv, u.condition_value) =>
                 out.res = ElseResult(u, arg.value, arg.dependencies)
           /\ (sv = u.condition_value
               /\ u.operator \in {"GreaterThanOrEqual", "LessThanOrEqual"}) =>
                 out.res = apply(u.then_transform, arg.value, arg.dependencies)
           /\ (sv = u.condition_value /\ u.operator \in {"GreaterThan", "LessThan"}) =>
                 out.res = ElseResult(u, arg.value, arg.dependencies)

\* Witness of C12: the condition stat equals the threshold under >= and the
\* then branch (+1) has acted, not the else branch (-1).
C12_Witness ==
    /\ AppliedUnit
    /\ arg.unit = ConditionalTransform(L, 5, "GreaterThanOrEqual", AdditiveTransform(1),
                                       Some(AdditiveTransform(0 - 1)))
    /\ arg.dependencies = [d \in {L} |-> 5]
    /\ arg.value = 20
    /\ out.res = Ok(21)

\* C13: when the dependency values hold no entry for the condition stat,
\* ConditionalTransform.apply does not fail on that account: it returns what
\* the branch selected for a condition stat's value of 0 returns (the then
\* branch when the operator holds between 0 and condition_value, otherwise
\* the else branch or the value unchanged).
C13_MissingConditionIsZero ==
    (/\ AppliedUnit
     /\ arg.unit.unit = "ConditionalTransform"
     /\ arg.unit.condition_stat_id \notin DOMAIN arg.dependencies) =>
       LET u == arg.unit
       IN  out.res = (IF Holds(u.operator, 0, u.condition_value)
                      THEN apply(u.then_transform, arg.value, arg.dependencies)
                      ELSE ElseResult(u, arg.value, arg.dependencies))

\* Witness of C13: no value for the condition stat L, "L == 0" holds for the
\* value 0 taken in its place, and the then branch has acted.
C13_Witness ==
    /\ AppliedUnit
    /\ arg.unit = ConditionalTransform(L, 0, "Equal", AdditiveTransform(1),
                                       Some(AdditiveTransform(0 - 1)))
    /\ arg.dependencies = [d \in {S} |-> 5]
    /\ arg.value = 20
    /\ out.res = Ok(21)

\* The identifiers a unit's structure names: a Map's dependencies, a
\* Conditional's condition stat and those of both of its branches.
RECURSIVE DeclaredIds(_)
DeclaredIds(u) ==
    CASE u.unit = "MapTransform" -> {u.dependencies[i] : i \in 1..Len(u.dependencies)}
      [] u.unit = "ConditionalTransform" ->
            {u.condition_stat_id} \cup DeclaredIds(u.then_transform)
            \cup (IF u.else_transform = None THEN {}
                  ELSE DeclaredIds(u.else_transform[1]))
      [] OTHER -> {}

\* C14: the identifiers a compiled Conditional declares are its condition stat
\* together with the identifiers declared by its then branch and by its else
\* branch, at any nesting depth; the branch a call does not select is
\* declared all the same.
C14_DeclaredDependencies ==
    (out # <<>> /\ out.fn = "depends_on" /\ arg.unit.unit = "ConditionalTransform") =>
       LET u == arg.unit
           declared == {out.res[i] : i \in 1..Len(out.res)}
       IN  /\ declared = DeclaredIds(u)
           /\ u.condition_stat_id \in declared
           /\ \A d \in DeclaredIds(u.then_transform) : d \in declared
           /\ u.else_transform # None =>
                 \A d \in DeclaredIds(u.else_transform[1]) : d \in declared

\* Witness of C14: a Conditional nested in an else branch; the inner
\* Conditional's Map dependencies S, L and the outer then branch's M are all
\* declared by the outer unit.
C14_Witness ==
    /\ out # <<>>
    /\ out.fn = "depends_on"
    /\ arg.unit.unit = "ConditionalTransform"
    /\ arg.unit.then_transform = MapTransform(<<M>>, 1)
    /\ arg.unit.else_transform # None
    /\ arg.unit.else_transform[1].unit = "ConditionalTransform"
    /\ arg.unit.else_transform[1].then_transform = MapTransform(<<S, L>>, 2)
    /\ {out.res[i] : i \in 1..Len(out.res)} = {S, L, M}

\* The template holding the transform under study has been applied.
AppliedOne == out # <<>> /\ out.fn = "apply_template"

\* A Clamp description both of whose bounds are given and resolve, the
\* minimum to a greater number than the maximum.
MinAboveMax(config, params) ==
    /\ config.type = "clamp"
    /\ config.min # None
    /\ config.max # None
    /\ IsOk(resolve(config.min[1], params))
    /\ IsOk(resolve(config.max[1], params))
    /\ resolve(config.min[1], params).val > resolve(config.max[1], params).val

\* C15: apply_template of a template whose Clamp resolves to min > max fails
\* with a configuration error and registers no clamp.
C15_ClampMinAboveMax ==
    (AppliedOne /\ MinAboveMax(arg.config, arg.params)) =>
       /\ IsErr(out.r.res)
       /\ out.r.regs = <<>>

ValidOperators == {<<">">>, <<"<">>, <<">", "=">>, <<"<", "=">>, <<"=", "=">>}

\* A description that holds, at some depth, a Conditional whose operator
\* string is not a comparison operator.
RECURSIVE HasInvalidOperator(_)
HasInvalidOperator(config) ==
    /\ config.type = "conditional"
    /\ \/ config.operator \notin ValidOperators
       \/ HasInvalidOperator(config.then)
       \/ config.else_then # None /\ HasInvalidOperator(config.else_then[1])

\* C16: a transform description holding, at any depth, a Conditional with an
\* operator string other than ">", "<", ">=", "<=", "==" does not compile:
\* apply_template returns a configuration error and registers nothing, and
\* the direct-definition compiler returns a configuration error as well.
C16_InvalidOperator ==
    (out # <<>> /\ HasInvalidOperator(arg.config)) =>
       /\ IsErr(out.r.res)
       /\ out.r.res.err.variant = "InvalidConfig"
       /\ out.r.regs = <<>>

\* Witness of C16: the invalid operator "!=" sits in a Conditional two levels
\* below a valid one, all values resolve, and apply_template has returned the
\* operator error.
C16_Witness ==
    /\ AppliedOne
    /\ arg.config = Conditional(M, 0, <<"=", "=">>, Additive(Number(2)),
                        Some(Conditional(S, 0, <<"<">>,
                                 Conditional(L, 1, <<"!", "=">>, Additive(Number(2)), None),
                                 None)))
    /\ IsErr(out.r.res)
    /\ out.r.res.err.ctx = "Operator error"
    /\ out.r.regs = <<>>

\* The number a source description of a direct definition stands for.
SourceNumber(config) ==
    IF config.type = "constant" THEN ValueOf(config.value, EmptyParams)
    ELSE ValueOf(config.base, EmptyParams)
         + ValueOf(config.scale, EmptyParams)
           * (IF config.level = None THEN 1 ELSE ValueOf(config.level[1], EmptyParams))

RECURSIVE SumOfSources(_)
SumOfSources(sources) ==
    IF sources = <<>> THEN 0 ELSE SourceNumber(Head(sources)) + SumOfSources(Tail(sources))

\* What an additive, multiplicative or clamp description makes of a value.
TransformNumber(config, v) ==
    CASE config.type = "additive" -> v + ValueOf(config.value, EmptyParams)
      [] config.type = "multiplicative" -> v * ValueOf(config.value, EmptyParams)
      [] config.type = "clamp" ->
            IF config.min # None /\ v < ValueOf(config.min[1], EmptyParams)
            THEN ValueOf(config.min[1], EmptyParams)
            ELSE IF config.max # None /\ v > ValueOf(config.max[1], EmptyParams)
                 THEN ValueOf(config.max[1], EmptyParams)
                 ELSE v

\* t_m(...t_1(v)) for the descriptions t_1..t_m in the order they are listed.
RECURSIVE FoldTransforms(_, _)
FoldTransforms(transforms, v) ==
    IF transforms = <<>> THEN v
    ELSE FoldTransforms(Tail(transforms), TransformNumber(Head(transforms), v))

DependencyFree(definition) ==
    \A i \in 1..Len(definition.transforms) :
        definition.transforms[i].type \in {"additive", "multiplicative", "clamp"}

\* C17: the value resolved for a loaded stat is its transforms, in the order
\* listed, applied to the sum of its sources: t_m(...t_1(s_1 + ... + s_n)),
\* whatever other stats the configuration holds and in whatever order they
\* were loaded; sources [50] with [additive 10] resolve to 60.
C17_ResolvedValue ==
    (/\ out # <<>>
     /\ out.fn = "resolve"
     /\ DependencyFree(arg.stats[out.stat_name])) =>
       LET definition == arg.stats[out.stat_name]
       IN  /\ out.res = Ok(FoldTransforms(definition.transforms,
                                          SumOfSources(definition.sources)))
           /\ definition = StatDefinition(<<Constant(Number(50))>>,
                                          <<Additive(Number(10))>>)
                 => out.res = Ok(60)
           /\ definition = StatDefinition(<<Constant(Number(100)), Constant(Number(50))>>,
                                          <<Multiplicative(Number(2))>>)
                 => out.res = Ok(300)

\* Witness of C17: sources [1], transforms [multiplicative 2, additive 10]
\* loaded next to a second stat resolve to (1 * 2) + 10 = 12.
C17_Witness ==
    /\ out # <<>>
    /\ out.fn = "resolve"
    /\ DOMAIN arg.stats = {H, M}
    /\ arg.stats[out.stat_name] =
          StatDefinition(<<Constant(Number(1))>>,
                         <<Multiplicative(Number(2)), Additive(Number(10))>>)
    /\ out.res = Ok(12)

\* Every placeholder of a value expression has a value in params.
BoundValue(sv, params) == IsPlaceholder(sv) => PlaceholderName(sv.s) \in DOMAIN params

BoundOption(opt, params) == opt = None \/ BoundValue(opt[1], params)

RECURSIVE BoundTransform(_, _)
BoundTransform(config, params) ==
    CASE config.type \in {"multiplicative", "additive"} -> BoundValue(config.value, params)
      [] config.type = "clamp" ->
            BoundOption(config.min, params) /\ BoundOption(config.max, params)
      [] config.type = "conditional" ->
            /\ BoundTransform(config.then, params)
            /\ config.else_then = None \/ BoundTransform(config.else_then[1], params)
      [] config.type = "map" -> BoundOption(config.multiplier, params)

BoundSource(config, params) ==
    IF config.type = "constant" THEN BoundValue(config.value, params)
    ELSE /\ BoundValue(config.base, params)
         /\ BoundValue(config.scale, params)
         /\ BoundOption(config.level, params)

AllBound(template, params) ==
    /\ \A i \in 1..Len(template.sources) : BoundSource(template.sources[i], params)
    /\ \A i \in 1..Len(template.transforms) : BoundTransform(template.transforms[i], params)

\* What the other of the two paths yields for the same template and table.
OtherPath(fn) ==
    IF fn = "apply_template"
    THEN build_resolver([n \in {H} |-> arg.direct], <<H>>)
    ELSE apply_template(OneTemplate(arg.template), "T", H, arg.params)

\* C18: when every placeholder of a template has a value in P, applying the
\* template with P to the global stat "H" succeeds exactly when loading the
\* direct definition (placeholders replaced by their values) succeeds, both
\* register the same sequence of units, and "H" resolves to the same value
\* on both resolvers.
C18_TemplateMatchesDirect ==
    (out # <<>> /\ AllBound(arg.template, arg.params)) =>
       IF out.fn = "resolve"
       THEN out.res = resolve_stat(OtherPath(out.path).regs, H)
       ELSE /\ IsOk(out.r.res) <=> IsOk(OtherPath(out.fn).res)
            /\ IsOk(out.r.res) => out.r.regs = OtherPath(out.fn).regs

\* Witness of C18: sources [constant {{x}}, scaling(0, {{l}}, {{x}})] and
\* transform [multiplicative {{l}}] applied with x = 2, l = 3 register three
\* units and resolve to (2 + 3 * 2) * 3 = 24.
C18_Witness ==
    /\ out # <<>>
    /\ out.fn = "resolve"
    /\ out.path = "apply_template"
    /\ arg.params = P1
    /\ arg.template.sources =
          <<Constant(Placeholder(x)),
            Scaling(Number(0), Placeholder(l), Some(Placeholder(x)))>>
    /\ arg.template.transforms = <<Multiplicative(Placeholder(l))>>
    /\ Len(out.r.regs) = 3
    /\ out.res = Ok(24)

\* C19: the table reloaded from the document templates_to_json writes holds
\* the same template names as the original and, for every template name,
\* target stat name and parameter table, apply_template on it returns the
\* same result and registers the same sequence of units as on the original
\* (also when the document is read without its null fields).
C19_RoundTrip ==
    (out # <<>> /\ out.fn = "from_json") =>
       /\ IsOk(out.res)
       /\ DOMAIN out.res.val = DOMAIN templates
       /\ \A n \in (DOMAIN templates) \cup {"Missing"}, stat_name \in StatNames,
             params \in ParamTables :
             apply_template(out.res.val, n, stat_name, params)
                = apply_template(templates, n, stat_name, params)

\* Witness of C19: a table whose template leaves level and the else branch
\* out has been written and reloaded, and the reloaded template compiles with
\* x = 2, l = 3 to a source and a Conditional on "A:H".
C19_Witness ==
    /\ out # <<>>
    /\ out.fn = "from_json"
    /\ IsOk(out.res)
    /\ DOMAIN templates = {"T"}
    /\ templates["T"].sources = <<Scaling(Placeholder(x), Number(2), None)>>
    /\ templates["T"].transforms =
          <<Conditional(L, 1, <<">", "=">>, Clamp(None, Some(Number(5))), None)>>
    /\ out.json = templates_to_json(templates)
    /\ IsOk(apply_template(out.res.val, "T", FormatColon(A, H), P1).res)
    /\ Len(apply_template(out.res.val, "T", FormatColon(A, H), P1).regs) = 2

\* The records of a batch that carry a given entity id, in batch order.
RECURSIVE RecordsOf(_, _)
RecordsOf(batch, e) ==
    IF batch = <<>> THEN <<>>
    ELSE (IF Head(batch).entity_id = e THEN <<Head(batch)>> ELSE <<>>)
         \o RecordsOf(Tail(batch), e)

CacheOf(cache, e) == IF e \in DOMAIN cache THEN cache[e] ELSE <<>>

RECURSIVE RegistrationsOf(_, _)
RegistrationsOf(regs, stat_id) ==
    IF regs = <<>> THEN <<>>
    ELSE (IF Head(regs).stat_id = stat_id THEN <<Head(regs)>> ELSE <<>>)
         \o RegistrationsOf(Tail(regs), stat_id)

\* C21: add_source_to_entity and add_transform_to_entity register exactly one
\* unit, of the kind added, under entity_id ":" stat_type, after the earlier
\* registrations; the cache, the template table and the registrations of
\* every other stat are as before the call.
C21_DirectInjection ==
    (last.op \in {"add_source_to_entity", "add_transform_to_entity"}) =>
       /\ resolver = last.before \o Segment
       /\ Len(Segment) = 1
       /\ Segment[1].stat_id = last.entity_id \o <<":">> \o last.stat_name
       /\ Segment[1].kind = (IF last.op = "add_source_to_entity" THEN "source"
                             ELSE "transform")
       /\ entity_configs = last.cache_before
       /\ templates = TemplateTable
       /\ \A id \in (StatIds(resolver) \cup StatIds(last.before))
                       \ {last.entity_id \o <<":">> \o last.stat_name} :
             RegistrationsOf(resolver, id) = RegistrationsOf(last.before, id)

\* Witness of C21: a transform injected on "A:H" after a template put units
\* on "A:H" and on no other stat; the stat then holds one registration more.
C21_Witness ==
    /\ last.op = "add_transform_to_entity"
    /\ last.entity_id = A
    /\ Len(last.before) > 1
    /\ Len(RegistrationsOf(resolver, FormatColon(A, H))) = Len(last.before) + 1
    /\ resolver[Len(resolver)].unit = AdditiveTransform(7)

\* C22: the template table a manager holds is the one it was constructed
\* with, after any sequence of apply_template, apply_templates, load_entity,
\* load_entity_stats, direct injections and templates_to_json calls, whether
\* they succeed or fail.
C22_TemplatesImmutable == templates = TemplateTable

\* Witness of C22: an apply_template that failed part-way, as a later call of
\* the manager; the table is the one the manager was constructed with.
C22_Witness ==
    /\ last.op = "apply_template"
    /\ IsErr(last.res)
    /\ last.template_name \in DOMAIN TemplateTable
    /\ Len(Segment) > 0
    /\ calls > 1
    /\ templates = TemplateTable

\* C23: a registered source is a constant fixed at registration: no later
\* call of the manager (a template applied with other parameters, a direct
\* injection, load_entity, load_entity_stats, failing or not) changes or
\* removes a source registration the resolver already holds.
C23_SourcesFrozen ==
    [][\A i \in 1..Len(resolver) :
          resolver[i].kind = "source" =>
             /\ Len(resolver') >= i
             /\ resolver'[i] = resolver[i]]_vars

\* Witness of C23: Base was applied to "A:H" with level 3 and then again with
\* level 5; the Scaling source of the first application still holds
\* base + scale * 3 while the second one registered base + scale * 5.
C23_Witness ==
    /\ last.op = "apply_template" /\ IsOk(last.res)
    /\ last.template_name = "Base" /\ last.stat_name = FormatColon(A, H)
    /\ last.params = P2
    /\ \E i \in 1..Len(last.before) :
          /\ last.before[i] = register_source(FormatColon(A, H),
                                 ConstantSource(ScalingValue(P1[x], 2, P1[l])))
          /\ resolver[i] = last.before[i]
    /\ \E j \in 1..Len(Segment) :
          Segment[j] = register_source(FormatColon(A, H),
                          ConstantSource(ScalingValue(P2[x], 2, P2[l])))

\* The sum of the sources registered for a stat, as the resolver adds them.
SourceSum(regs, stat_id) == SumSources(regs, stat_id, 1, 0)

\* C27: apply_template appends to the registrations of its target and never
\* replaces or removes any: after the call the target holds its earlier
\* registrations followed by the units of this application (all the
\* template's sources, then all its transforms, when the call succeeds), and
\* the sum of the target's sources is the earlier sum plus the sum of the new
\* sources.
C27_Appends ==
    AppliedTemplate =>
       /\ RegistrationsOf(resolver, last.stat_name)
             = RegistrationsOf(last.before, last.stat_name) \o Segment
       /\ SourceSum(resolver, last.stat_name)
             = SourceSum(last.before, last.stat_name) + SourceSum(Segment, last.stat_name)
       /\ IsOk(last.res) =>
             /\ Len(Segment) = Len(LastTemplate.sources) + Len(LastTemplate.transforms)
             /\ \A i \in 1..Len(Segment) :
                   Segment[i].kind = (IF i <= Len(LastTemplate.sources)
                                      THEN "source" ELSE "transform")

\* Witness of C27: Base applied to "A:H" a second time, with level 5 after
\* level 3: the stat holds both applications' units, and its sources sum
\* to both applications' sources.
C27_Witness ==
    /\ AppliedTemplate /\ IsOk(last.res)
    /\ last.template_name = "Base" /\ last.stat_name = FormatColon(A, H)
    /\ last.params = P2
    /\ RegistrationsOf(last.before, FormatColon(A, H)) = last.before
    /\ Len(last.before) = Len(Segment)
    /\ last.before[2].unit = ConstantSource(ScalingValue(P1[x], 2, P1[l]))
    /\ resolver = last.before \o Segment
    /\ SourceSum(resolver, FormatColon(A, H))
          = SourceSum(last.before, FormatColon(A, H))
            + ScalingValue(P2[x], 2, P2[l]) + 1 + ScalingValue(1, 2, 1)
    /\ SourceSum(last.before, FormatColon(A, H)) > 0

\* What apply_template returns for the i-th application of a batch, alone.
AloneResult(apps, i) ==
    apply_template(templates, apps[i].template_name, apps[i].stat_name, apps[i].params)

\* The registrations the first k applications of a batch make, one after the
\* other.
RECURSIVE FirstRegs(_, _)
FirstRegs(apps, k) ==
    IF k = 0 THEN <<>> ELSE FirstRegs(apps, k - 1) \o AloneResult(apps, k).regs

\* The applications load_entity_stats makes for the batch of the last call.
StatsApplications ==
    [i \in 1..Len(last.batch) |->
        Application(last.batch[i].template_name,
                    last.batch[i].entity_id \o <<":">> \o last.batch[i].stat_type,
                    last.batch[i].params)]

\* C25: a load_entity_stats that fails on its k-th record leaves the cache
\* exactly as it was before the call, so none of records 1..k-1 is cached,
\* while the resolver has gained the units of records 1..k-1 and of the
\* successful prefix of record k; the error is the k-th record's.
C25_FailedBatch ==
    (last.op = "load_entity_stats" /\ IsErr(last.res)) =>
       /\ last.failed \in 1..Len(last.batch)
       /\ \A i \in 1..(last.failed - 1) : IsOk(AloneResult(StatsApplications, i).res)
       /\ last.res = AloneResult(StatsApplications, last.failed).res
       /\ entity_configs = last.cache_before
       /\ resolver = last.before \o FirstRegs(StatsApplications, last.failed)

\* Witness of C25: a batch whose first record succeeds and whose second fails
\* after two of its units were registered; the first record's entity has
\* units in the resolver and no record in the cache.
C25_Witness ==
    /\ last.op = "load_entity_stats" /\ IsErr(last.res)
    /\ last.failed = 2
    /\ last.batch[1].entity_id = AB
    /\ Len(Segment) = Len(AloneResult(StatsApplications, 1).regs) + 2
    /\ Len(AloneResult(StatsApplications, 1).regs) > 0
    /\ Segment[1].stat_id = FormatColon(AB, last.batch[1].stat_type)
    /\ AB \notin DOMAIN entity_configs
    /\ entity_configs = last.cache_before

\* C26: load_entity registers every record's units under the entity id it is
\* called with and ignores the entity id the record carries: every unit is
\* registered under E:stat_type of one of the records, every dependency it
\* declares is E:d, and nothing is registered under X: for a record's own
\* entity id X that differs from E.
C26_ArgumentScoping ==
    last.op = "load_entity" =>
       \A i \in 1..Len(Segment) :
          /\ \E b \in 1..Len(last.batch) :
                Segment[i].stat_id = last.entity_id \o <<":">> \o last.batch[b].stat_type
          /\ \A b \in 1..Len(last.batch) :
                last.batch[b].entity_id # last.entity_id =>
                   ~StartsWith(Segment[i].stat_id, last.batch[b].entity_id \o <<":">>)
          /\ Segment[i].kind = "transform" =>
                \A k \in 1..Len(depends_on(Segment[i].unit)) :
                   \E d \in {S, L} :
                      depends_on(Segment[i].unit)[k] = last.entity_id \o <<":">> \o d

\* The part of C26 that does not involve dependencies: where the units go.
C26_RegisteredUnderArgument ==
    last.op = "load_entity" =>
       \A i \in 1..Len(Segment) :
          /\ \E b \in 1..Len(last.batch) :
                Segment[i].stat_id = last.entity_id \o <<":">> \o last.batch[b].stat_type
          /\ \A b \in 1..Len(last.batch) :
                last.batch[b].entity_id # last.entity_id =>
                   ~StartsWith(Segment[i].stat_id, last.batch[b].entity_id \o <<":">>)

\* C28: apply_templates goes through its applications in list order and stops
\* at the first one that fails: the applications before it are registered in
\* full, the failing one up to its failing unit, those after it not at all,
\* and its error is the one returned; without a failure every application is
\* registered in full, in list order.
C28_StopsAtFirstFailure ==
    last.op = "apply_templates" =>
       /\ IsOk(last.res) =>
             /\ last.failed = 0
             /\ \A i \in 1..Len(last.batch) : IsOk(AloneResult(last.batch, i).res)
             /\ Segment = FirstRegs(last.batch, Len(last.batch))
       /\ IsErr(last.res) =>
             /\ last.failed \in 1..Len(last.batch)
             /\ \A i \in 1..(last.failed - 1) : IsOk(AloneResult(last.batch, i).res)
             /\ last.res = AloneResult(last.batch, last.failed).res
             /\ Segment = FirstRegs(last.batch, last.failed)

\* Witness of C28: the first of two applications fails after two units, and
\* the second, which succeeds when applied alone, registered nothing.
C28_Witness ==
    /\ last.op = "apply_templates" /\ IsErr(last.res)
    /\ Len(last.batch) = 2 /\ last.failed = 1
    /\ IsOk(AloneResult(last.batch, 2).res)
    /\ Len(AloneResult(last.batch, 2).regs) > 0
    /\ Len(Segment) = 2
    /\ \A i \in 1..Len(Segment) : Segment[i].stat_id = last.batch[1].stat_name
    /\ last.batch[2].stat_name # last.batch[1].stat_name

\* A direct definition with a "{{name}}" placeholder in a value of one of its
\* sources or transforms, Conditional branches included.
HasPlaceholder(definition) == ~AllBound(definition, EmptyParams)

\* What the loader had registered when it stopped, for an iteration order.
PartlyBuilt(stats, order) ==
    RegisterTransforms(stats, order, 1,
                       RegisterSources(stats, order, 1, Progress(Ok(None), <<>>))).regs

\* C24: a direct definition takes no parameters: a "{{name}}" placeholder in
\* a source or a transform of any stat makes from_json fail with an
\* InvalidConfig error, and a failing from_json yields no resolver, whatever
\* it had registered before the failure.
C24_NoParameters ==
    (out # <<>> /\ out.fn = "from_json") =>
       /\ (\E n \in DOMAIN arg.stats : HasPlaceholder(arg.stats[n])) =>
             /\ IsErr(out.res)
             /\ out.res.err.variant = "InvalidConfig"
       /\ IsErr(out.res) => resolver = <<>>

\* Witness of C24: of two stats one is well-formed and the other has a
\* placeholder in its second transform; the sources of both and a transform
\* were registered before the failure, and no resolver is left.
C24_Witness ==
    /\ out # <<>> /\ out.fn = "from_json" /\ IsErr(out.res)
    /\ DOMAIN arg.stats = {H, M}
    /\ ~HasPlaceholder(arg.stats[H])
    /\ HasPlaceholder(arg.stats[M])
    /\ \A i \in 1..Len(arg.stats[M].sources) :
          BoundSource(arg.stats[M].sources[i], EmptyParams)
    /\ \A order \in Orders({H, M}) : Len(PartlyBuilt(arg.stats, order)) > 2
    /\ resolver = <<>>

\* A value expression that does not resolve under params: a placeholder whose
\* parameter is missing, or a string that is not a number.
Unresolved(sv, params) == IsErr(resolve(sv, params))

UnresolvedOption(opt, params) == opt # None /\ Unresolved(opt[1], params)

\* A transform description with an unresolved value somewhere in it, at any
\* depth of Conditional branches.
RECURSIVE FailsInside(_, _)
FailsInside(config, params) ==
    CASE config.type \in {"multiplicative", "additive"} -> Unresolved(config.value, params)
      [] config.type = "clamp" ->
            UnresolvedOption(config.min, params) \/ UnresolvedOption(config.max, params)
      [] config.type = "map" -> UnresolvedOption(config.multiplier, params)
      [] config.type = "conditional" ->
            \/ FailsInside(config.then, params)
            \/ config.else_then # None /\ FailsInside(config.else_then[1], params)

\* C29: a Conditional with a missing parameter or a non-numeric string
\* anywhere inside its then or else description, at any depth, does not
\* compile: apply_template returns an error and registers no Conditional,
\* whichever branch the condition would select.
C29_BranchFailureFailsAll ==
    (/\ out # <<>>
     /\ out.fn = "apply_template"
     /\ arg.config.type = "conditional"
     /\ FailsInside(arg.config, arg.params)) =>
       /\ IsErr(out.r.res)
       /\ out.r.regs = <<>>

\* Witness of C29: with all parameters given, the else-branch of the
\* Conditional in the then-branch holds a non-numeric string, two levels
\* down, under a valid operator; the call failed and registered nothing.
C29_Witness ==
    /\ out # <<>> /\ out.fn = "apply_template"
    /\ arg.params = P1
    /\ arg.config.type = "conditional"
    /\ IsOk(OperatorFromStr(arg.config.operator))
    /\ arg.config.else_then = None
    /\ arg.config.then.type = "conditional"
    /\ IsOk(OperatorFromStr(arg.config.then.operator))
    /\ ~FailsInside(arg.config.then.then, arg.params)
    /\ arg.config.then.else_then = Some(Additive(String(<<"x">>)))
    /\ IsErr(out.r.res)
    /\ out.r.regs = <<>>

\* The unit a Conditional hands the value to for the dependency values given,
\* following nested Conditionals; <<>> when the value is handed back as it is.
\* An absent condition stat counts as 0.
RECURSIVE Selected(_, _)
Selected(u, dependency_values) ==
    IF u.unit # "ConditionalTransform" THEN <<u>>
    ELSE IF Holds(u.operator,
                  IF u.condition_stat_id \in DOMAIN dependency_values
                  THEN dependency_values[u.condition_stat_id] ELSE 0,
                  u.condition_value)
         THEN Selected(u.then_transform, dependency_values)
         ELSE IF u.else_transform = None THEN <<>>
              ELSE Selected(u.else_transform[1], dependency_values)

HasMapBranch(u) ==
    \/ u.then_transform.unit = "MapTransform"
    \/ u.else_transform # None /\ u.else_transform[1].unit = "MapTransform"

\* A Map one of whose declared identifiers has no dependency value.
LacksDependency(sel, dependency_values) ==
    /\ sel # <<>>
    /\ sel[1].unit = "MapTransform"
    /\ AbsentIds(sel[1].dependencies, dependency_values) # {}

\* C30: a Conditional with a Map branch fails exactly when the branch the
\* condition selects is a Map with an absent dependency, and then with
\* MissingDependency naming it; an absent dependency of a Map in the branch
\* not selected has no effect: the result is the selected branch's, or the
\* value unchanged when the else side is selected and there is none.
C30_OnlySelectedBranchFails ==
    (AppliedUnit /\ arg.unit.unit = "ConditionalTransform" /\ HasMapBranch(arg.unit)) =>
       /\ IsErr(out.res) <=> LacksDependency(Selected(arg.unit, arg.dependencies),
                                             arg.dependencies)
       /\ IsErr(out.res) =>
             /\ out.res.err.variant = "MissingDependency"
             /\ out.res.err.name \in AbsentIds(Selected(arg.unit, arg.dependencies)[1].dependencies,
                                               arg.dependencies)
       /\ Selected(arg.unit, arg.dependencies) = <<>> => out.res = Ok(arg.value)
       /\ (/\ Selected(arg.unit, arg.dependencies) # <<>>
           /\ Selected(arg.unit, arg.dependencies)[1].unit = "AdditiveTransform") =>
             out.res = Ok(arg.value + Selected(arg.unit, arg.dependencies)[1].value)

\* Witness of C30: the condition holds and selects an additive then-branch,
\* while the else-branch is a Map whose only dependency M has no value;
\* the result is the then-branch's.
C30_Witness ==
    /\ AppliedUnit
    /\ arg.unit = ConditionalTransform(L, 5, "GreaterThanOrEqual", AdditiveTransform(1),
                                       Some(MapTransform(<<M>>, 1)))
    /\ arg.dependencies = [d \in {S, L} |-> IF d = S THEN 0 ELSE 10]
    /\ M \notin DOMAIN arg.dependencies
    /\ arg.value = 20
    /\ out.res = Ok(21)

====
